---- MODULE Spec2Model ----
(***************************************************************************)
(* Junction's Delta API (src/src/junction/delta.py): the page actions, the *)
(* Delta built from a batch of Modifications and its five-pass execution   *)
(* against the Confluence content API, with an accessor that may fail at   *)
(* any remote call and a run that may be replayed or rebuilt afterwards.   *)
(*                                                                         *)
(* The Confluence server is outside the repository.  Its behaviour is      *)
(* taken from what the code documents about it: a create without ancestors *)
(* lands under the space homepage (delta.py:198), an update whose          *)
(* ancestors are None moves the page to the root of the space              *)
(* (delta.py:15), the first ancestor of every page is the space homepage   *)
(* (delta.py:326), an update carries the next version number.  Deleting a  *)
(* page that has child pages moves the children to its parent.  The        *)
(* server does not reject a duplicate title: fetch_target_page does.       *)
(***************************************************************************)
EXTENDS Integers, Sequences, FiniteSets, TLC

VARIABLES
    pages,      \* the remote tree: page id -> [title, parent, body, ver]
    nextId,     \* the id the server gives to the next created page
    nextUuid,   \* the next uuid4() token
    feed,       \* the Modifications of the history unit
    delta,      \* the Delta built from feed: the five buckets
    pc,         \* "build", a bucket name, "done" or "failed"
    idx,        \* index of the next action in the bucket pc names
    run,        \* number of the current call of Delta.execute
    status,     \* how the current run ended so far: "ok" or the error raised
    log,        \* every remote call issued, tagged <<run, bucket, idx>>
    hist,       \* the starting tree and how each finished run ended
    last,       \* the last page action executed, with the tree before it
    driver      \* cli.delta: the history units, the Deltas built, the unit executing

vars == <<pages, nextId, nextUuid, feed, delta, pc, idx, run, status, log, hist, last,
          driver>>

-----------------------------------------------------------------------------
(* Titles, bodies, paths                                                   *)

\* A title is <<token, name>>: token 0 for a title derived from a path,
\* token u > 0 for the temporary title f"{uuid4()}_{old_title}".
T(name) == <<0, name>>
\* A rename without a temporary title: the page keeps its old title.
temporary_title_Same(u, old_title) == old_title

temporary_title(u, old_title) == <<u, old_title[2]>>

HomeTitle == T("Home")
HomeId == 1
NoParent == 0

\* markdown_to_storage: the compiled body of a source text.
markdown_to_storage(source_code) == <<"storage", source_code>>
PAGE_BODY_LIST_CHILDREN == <<"macro", "children">>
NoBody == <<"absent", "">>

\* The ancestors field of a request: a list with one parent id, the empty
\* list, or None.
NoneAncestors == <<0>>

-----------------------------------------------------------------------------
(* The remote tree as the accessor shows it                                *)

Put(f, k, v) == [x \in (DOMAIN f) \cup {k} |-> IF x = k THEN v ELSE f[x]]

RECURSIVE AncestorsFrom(_, _, _)
AncestorsFrom(pg, i, n) ==
    IF n = 0 \/ pg[i].parent = NoParent \/ pg[i].parent \notin DOMAIN pg
    THEN <<>>
    ELSE Append(AncestorsFrom(pg, pg[i].parent, n - 1), pg[i].parent)

\* expand=ancestors: the ids of the ancestors of page i, homepage first,
\* immediate parent last.
Ancestors(pg, i) == AncestorsFrom(pg, i, Cardinality(DOMAIN pg))

\* A lookup that never reports child pages.
childTypes_page_Never(pg, i) == FALSE

\* expand=childTypes.page: whether page i has child pages.
childTypes_page(pg, i) == \E c \in DOMAIN pg : pg[c].parent = i

\* GET content?type=page&title=...: the pages of the space with this title.
get_page_results(pg, title) == {i \in DOMAIN pg : pg[i].title = title}

TitlesOf(pg, ids) == [k \in DOMAIN ids |-> pg[ids[k]].title]

SeqTail(s) == IF s = <<>> THEN <<>> ELSE Tail(s)
SeqLast(s) == s[Len(s)]
SeqFront(s) == SubSeq(s, 1, Len(s) - 1)

-----------------------------------------------------------------------------
(* The accessor: every remote call consumes fuel and is logged.  A world   *)
(* w is [pages, nextId, calls, fuel, st, ret]: st is "ok" until something  *)
(* raises, and a raised error propagates (nothing runs after it).          *)

Entry(op, id, title, parent, body, ver, live) ==
    [op |-> op, id |-> id, title |-> title, parent |-> parent,
     body |-> body, ver |-> ver, parentLive |-> live]

\* _ApiClient.__call_api: requests raises or raise_for_status raises.
call_api(w, entry) ==
    IF w.st # "ok" THEN w
    ELSE IF w.fuel = 0 THEN [w EXCEPT !.st = "accessor"]
    ELSE [w EXCEPT !.calls = Append(@, entry),
                   !.fuel = IF @ > 0 THEN @ - 1 ELSE @]

\* The decoded response of a call that went through.
Returning(c, ret) == IF c.st # "ok" THEN c ELSE [c EXCEPT !.ret = ret]

\* ContentApi.get_page
get_page(w, title) ==
    Returning(call_api(w, Entry("get", 0, title, 0, NoBody, 0, TRUE)),
              get_page_results(w.pages, title))

\* The page a create request with these ancestors is placed under.
ParentOfCreate(pg, ancestors) ==
    IF ancestors = NoneAncestors
    THEN (IF HomeId \in DOMAIN pg THEN HomeId ELSE NoParent)
    ELSE ancestors[1]

CreateApplied(c, title, parent, body, live) ==
    IF c.st # "ok" THEN c
    ELSE IF ~live THEN [c EXCEPT !.st = "remote"]
    ELSE [c EXCEPT !.pages = Put(@, c.nextId,
                                 [title |-> title, parent |-> parent,
                                  body |-> body, ver |-> 1]),
                   !.nextId = @ + 1,
                   !.ret = {c.nextId}]

CreateUnder(w, title, parent, body, live) ==
    CreateApplied(call_api(w, Entry("create", w.nextId, title, parent, body, 1, live)),
                  title, parent, body, live)

\* ContentApi.create_content
create_content(w, title, ancestors, body) ==
    CreateUnder(w, title, ParentOfCreate(w.pages, ancestors), body,
                ancestors = NoneAncestors
                    \/ ParentOfCreate(w.pages, ancestors) \in DOMAIN w.pages)

\* The page an update request with these ancestors places page id under.
ParentOfUpdate(pg, id, ancestors) ==
    IF ancestors = NoneAncestors
    THEN (IF HomeId \in DOMAIN pg /\ id # HomeId THEN HomeId ELSE NoParent)
    ELSE IF ancestors = <<>> THEN pg[id].parent
    ELSE ancestors[1]

\* The server refuses a parent that does not exist or lies below the page.
ParentAccepted(pg, id, parent) ==
    \/ parent = NoParent
    \/ /\ parent \in DOMAIN pg
       /\ parent # id
       /\ \A k \in DOMAIN Ancestors(pg, parent) : Ancestors(pg, parent)[k] # id

UpdateApplied(c, id, title, number, parent, body, live) ==
    IF c.st # "ok" THEN c
    ELSE IF ~live \/ number # c.pages[id].ver + 1 THEN [c EXCEPT !.st = "remote"]
    ELSE [c EXCEPT !.pages = [@ EXCEPT ![id] =
                                 [title |-> title, parent |-> parent,
                                  body |-> body, ver |-> number]],
                   !.ret = {id}]

UpdateTo(w, id, title, number, parent, body, live) ==
    UpdateApplied(call_api(w, Entry("update", id, title, parent, body, number, live)),
                  id, title, number, parent, body, live)

\* ContentApi.update_content
update_content(w, id, title, number, ancestors, body) ==
    UpdateTo(w, id, title, number, ParentOfUpdate(w.pages, id, ancestors),
             IF body = NoBody THEN w.pages[id].body ELSE body,
             ParentAccepted(w.pages, id, ParentOfUpdate(w.pages, id, ancestors)))

\* The tree without page id: its child pages move to its parent.
WithoutPage(pg, id) ==
    [i \in (DOMAIN pg) \ {id} |->
        IF pg[i].parent = id THEN [pg[i] EXCEPT !.parent = pg[id].parent] ELSE pg[i]]

DeleteApplied(c, id) ==
    IF c.st # "ok" THEN c
    ELSE [c EXCEPT !.pages = WithoutPage(@, id), !.ret = {}]

\* ContentApi.delete_content
delete_content(w, id) ==
    DeleteApplied(call_api(w, Entry("delete", id, w.pages[id].title, w.pages[id].parent,
                                    w.pages[id].body, w.pages[id].ver, TRUE)),
                  id)

-----------------------------------------------------------------------------
(* The page actions.  Each execute is written as the chain of its remote   *)
(* calls: the operator for a step takes the world the previous call left.  *)

\* A lookup that takes any one of several results.
Ambiguous_Lenient(q) == q

\* if result.size > 1: raise RuntimeError
Ambiguous(q) ==
    IF q.st # "ok" THEN q
    ELSE IF Cardinality(q.ret) > 1 THEN [q EXCEPT !.st = "ambiguous"]
    ELSE q

\* PageAction.fetch_target_page
fetch_target_page(w, title) == Ambiguous(get_page(w, title))

\* A request that carries the version number it read.
VersionNumber_Same(number) == number

\* version=Version(number=v.number + 1 if v and v.number else 2)
VersionNumber(number) == IF number # 0 THEN number + 1 ELSE 2

TheOne(S) == CHOOSE x \in S : TRUE

RECURSIVE CreatePage_execute(_, _, _, _)
RECURSIVE UpdatePage_execute(_, _, _, _)
RECURSIVE EnsureAncestors_execute(_, _)
RECURSIVE DeletePage_execute(_, _)
RECURSIVE CleanupEmptyAncestors_execute(_, _)

\* [Content(id=parent.id)] if parent else None
AncestorsOfRequest(e) == IF e.st # "ok" THEN e ELSE [e EXCEPT !.ret = <<TheOne(e.ret)>>]

\* A parent resolution that ignores the ancestor titles.
ResolveParent_Unparented(w, ancestor_titles) == [w EXCEPT !.ret = NoneAncestors]

\* parent = EnsureAncestors(ancestor_titles).execute(api_client)
\*          if ancestor_titles else None
ResolveParent(w, ancestor_titles) ==
    IF ancestor_titles # <<>>
    THEN AncestorsOfRequest(EnsureAncestors_execute(w, ancestor_titles))
    ELSE [w EXCEPT !.ret = NoneAncestors]

\* A create request that names no parent.
CreatePage_create_AtRoot(p, title, new_body) ==
    IF p.st # "ok" THEN p ELSE create_content(p, title, NoneAncestors, new_body)

\* CreatePage.execute, the create request once the parent is resolved.
CreatePage_create(p, title, new_body) ==
    IF p.st # "ok" THEN p ELSE create_content(p, title, p.ret, new_body)

\* A CreatePage that leaves a page it finds as it is.
CreatePage_fetched_Keep(q, title, new_body, ancestor_titles) ==
    IF q.st # "ok" THEN q
    ELSE IF Cardinality(q.ret) = 1 THEN q
    ELSE CreatePage_create(ResolveParent(q, ancestor_titles), title, new_body)

\* A CreatePage that creates without regard to the lookup.
CreatePage_fetched_AlwaysCreate(q, title, new_body, ancestor_titles) ==
    IF q.st # "ok" THEN q
    ELSE CreatePage_create(ResolveParent(q, ancestor_titles), title, new_body)

\* CreatePage.execute after the lookup of its title.
CreatePage_fetched(q, title, new_body, ancestor_titles) ==
    IF q.st # "ok" THEN q
    ELSE IF Cardinality(q.ret) = 1
    THEN UpdatePage_execute(q, title, new_body, ancestor_titles)
    ELSE CreatePage_create(ResolveParent(q, ancestor_titles), title, new_body)

CreatePage_execute(w, title, new_body, ancestor_titles) ==
    CreatePage_fetched(fetch_target_page(w, title), title, new_body, ancestor_titles)

\* An EnsureAncestors that creates the missing page without its own ancestors.
EnsureAncestors_fetched_Flat(q, ancestor_titles) ==
    IF q.st # "ok" THEN q
    ELSE IF Cardinality(q.ret) = 1 THEN q
    ELSE CreatePage_execute(q, SeqLast(ancestor_titles), PAGE_BODY_LIST_CHILDREN, <<>>)

\* An EnsureAncestors that creates its page whether or not one exists.
EnsureAncestors_fetched_Fresh(q, ancestor_titles) ==
    IF q.st # "ok" THEN q
    ELSE CreatePage_create(ResolveParent(q, SeqFront(ancestor_titles)),
                           SeqLast(ancestor_titles), PAGE_BODY_LIST_CHILDREN)

\* EnsureAncestors.execute after the lookup of the last title of the chain.
EnsureAncestors_fetched(q, ancestor_titles) ==
    IF q.st # "ok" THEN q
    ELSE IF Cardinality(q.ret) = 1 THEN q
    ELSE CreatePage_execute(q, SeqLast(ancestor_titles), PAGE_BODY_LIST_CHILDREN,
                            SeqFront(ancestor_titles))

EnsureAncestors_execute(w, ancestor_titles) ==
    EnsureAncestors_fetched(fetch_target_page(w, SeqLast(ancestor_titles)),
                            ancestor_titles)

\* [x.title for x in existing.ancestors[1:]] if existing.ancestors else []
current_ancestors(pg, id) == SeqTail(TitlesOf(pg, Ancestors(pg, id)))

\* An update request that names no ancestors.
ancestors_unchanged_None(pg, id) == NoneAncestors

\* [Content(id=existing.ancestors[-1].id)] if existing.ancestors else []
ancestors_unchanged(pg, id) ==
    IF Ancestors(pg, id) # <<>> THEN <<SeqLast(Ancestors(pg, id))>> ELSE <<>>

\* An UpdatePage without the ancestor check.
UpdatePage_found_Unchecked(q, id, title, new_body, ancestor_titles) ==
    update_content(q, id, title, VersionNumber(q.pages[id].ver),
                   ancestors_unchanged(q.pages, id), new_body)

\* UpdatePage.execute on the page found.
UpdatePage_found(q, id, title, new_body, ancestor_titles) ==
    IF ancestor_titles # current_ancestors(q.pages, id)
    THEN [q EXCEPT !.st = "assertion"]
    ELSE update_content(q, id, title, VersionNumber(q.pages[id].ver),
                        ancestors_unchanged(q.pages, id), new_body)

\* An UpdatePage that raises when it finds no page.
UpdatePage_fetched_Strict(q, title, new_body, ancestor_titles) ==
    IF q.st # "ok" THEN q
    ELSE IF Cardinality(q.ret) = 1
    THEN UpdatePage_found(q, TheOne(q.ret), title, new_body, ancestor_titles)
    ELSE [q EXCEPT !.st = "missing"]

\* UpdatePage.execute after the lookup of its title.
UpdatePage_fetched(q, title, new_body, ancestor_titles) ==
    IF q.st # "ok" THEN q
    ELSE IF Cardinality(q.ret) = 1
    THEN UpdatePage_found(q, TheOne(q.ret), title, new_body, ancestor_titles)
    ELSE CreatePage_execute(q, title, new_body, ancestor_titles)

UpdatePage_execute(w, title, new_body, ancestor_titles) ==
    UpdatePage_fetched(fetch_target_page(w, title), title, new_body, ancestor_titles)

\* A delete or move that leaves the former parent alone.
CleanupParent_Skip(d, before, id) == d

\* if page.ancestors and page.ancestors[-1].title:
\*     CleanupEmptyAncestors(page.ancestors[-1].title).execute(api_client)
\* with the ancestors read before the mutation d.
CleanupParent(d, before, id) ==
    IF d.st # "ok" THEN d
    ELSE IF Ancestors(before, id) # <<>>
    THEN CleanupEmptyAncestors_execute(d, before[SeqLast(Ancestors(before, id))].title)
    ELSE d

\* A DeletePage that raises when the page is already gone.
DeletePage_fetched_Strict(q, title) ==
    IF q.st # "ok" THEN q
    ELSE IF Cardinality(q.ret) = 0 THEN [q EXCEPT !.st = "missing"]
    ELSE CleanupParent(delete_content(q, TheOne(q.ret)), q.pages, TheOne(q.ret))

\* DeletePage.execute after the lookup of its title.
DeletePage_fetched(q, title) ==
    IF q.st # "ok" THEN q
    ELSE IF Cardinality(q.ret) = 0 THEN q
    ELSE CleanupParent(delete_content(q, TheOne(q.ret)), q.pages, TheOne(q.ret))

DeletePage_execute(w, title) == DeletePage_fetched(fetch_target_page(w, title), title)

\* A CleanupEmptyAncestors that raises when its page is gone.
CleanupEmptyAncestors_fetched_Strict(q, title) ==
    IF q.st # "ok" THEN q
    ELSE IF Cardinality(q.ret) = 0 THEN [q EXCEPT !.st = "missing"]
    ELSE IF ~childTypes_page(q.pages, TheOne(q.ret))
    THEN DeletePage_execute(q, title)
    ELSE q

\* A CleanupEmptyAncestors that deletes the page it finds, empty or not.
CleanupEmptyAncestors_fetched_Always(q, title) ==
    IF q.st # "ok" THEN q
    ELSE IF Cardinality(q.ret) = 0 THEN q
    ELSE DeletePage_execute(q, title)

\* CleanupEmptyAncestors.execute after the lookup of its title.
CleanupEmptyAncestors_fetched(q, title) ==
    IF q.st # "ok" THEN q
    ELSE IF Cardinality(q.ret) = 0 THEN q
    ELSE IF ~childTypes_page(q.pages, TheOne(q.ret))
    THEN DeletePage_execute(q, title)
    ELSE q

CleanupEmptyAncestors_execute(w, title) ==
    CleanupEmptyAncestors_fetched(fetch_target_page(w, title), title)

\* A MovePage that raises whenever its page is missing.
MovePage_missing_Strict(new_query) ==
    IF new_query.st # "ok" THEN new_query
    ELSE [new_query EXCEPT !.st = "unreconcilable"]

\* A MovePage that takes a missing page for a move already done.
MovePage_missing_Lenient(new_query) == new_query

\* MovePage.execute when the page is not found: was the move done before?
MovePage_missing(new_query) ==
    IF new_query.st # "ok" THEN new_query
    ELSE IF Cardinality(new_query.ret) = 1 THEN new_query
    ELSE [new_query EXCEPT !.st = "unreconcilable"]

\* A MovePage whose update request carries a body.
MovePage_update_WithBody(p, id, new_title) ==
    IF p.st # "ok" THEN p
    ELSE update_content(p, id, new_title, VersionNumber(p.pages[id].ver), p.ret,
                        markdown_to_storage("new"))

\* A MovePage that sends no ancestors: the page goes to the root.
MovePage_update_AtRoot(p, id, new_title) ==
    IF p.st # "ok" THEN p
    ELSE update_content(p, id, new_title, VersionNumber(p.pages[id].ver),
                        NoneAncestors, NoBody)

\* MovePage.execute, the update request once the parent is resolved.
MovePage_update(p, id, new_title) ==
    IF p.st # "ok" THEN p
    ELSE update_content(p, id, new_title, VersionNumber(p.pages[id].ver), p.ret, NoBody)

\* A MovePage that leaves the old ancestors alone.
MovePage_found_NoCleanup(q, id, new_title, ancestor_titles) ==
    MovePage_update(ResolveParent(q, ancestor_titles), id, new_title)

\* MovePage.execute on the page found.
MovePage_found(q, id, new_title, ancestor_titles) ==
    CleanupParent(MovePage_update(ResolveParent(q, ancestor_titles), id, new_title),
                  q.pages, id)

\* MovePage.execute after the lookup of its title.
MovePage_fetched(q, new_title, ancestor_titles) ==
    IF q.st # "ok" THEN q
    ELSE IF Cardinality(q.ret) = 0 THEN MovePage_missing(get_page(q, new_title))
    ELSE MovePage_found(q, TheOne(q.ret), new_title, ancestor_titles)

MovePage_execute(w, title, new_title, ancestor_titles) ==
    MovePage_fetched(fetch_target_page(w, title), new_title, ancestor_titles)

-----------------------------------------------------------------------------
(* Modifications and the Delta                                             *)

\* A path is [dirs, stem, suffix]: Path("Bar/Foo.md") has dirs <<"Bar">>
\* (parts[:-1]), stem "Foo" and suffix "md".  NoPath is None.
P(dirs, stem) == [dirs |-> dirs, stem |-> stem, suffix |-> "md"]
NoPath == [dirs |-> <<>>, stem |-> "", suffix |-> ""]

Modification(old_path, new_path, change_type, source_code) ==
    [old_path |-> old_path, new_path |-> new_path,
     change_type |-> change_type, source_code |-> source_code]

\* A path that resolves to the old path when there is one.
path_PreferOld(mod) == IF mod.old_path # NoPath THEN mod.old_path ELSE mod.new_path

\* Modification.path and Modification.previous_path
path(mod) == IF mod.new_path # NoPath THEN mod.new_path ELSE mod.old_path
previous_path(mod) == IF mod.change_type = "RENAME" THEN mod.old_path ELSE NoPath

\* title = mod.path.stem; ancestors = list(mod.path.parts[:-1])
TitleOfPath(p) == T(p.stem)
AncestorsOfPath(p) == [k \in DOMAIN p.dirs |-> T(p.dirs[k])]

Action(kind, title, new_title, new_body, ancestor_titles) ==
    [kind |-> kind, title |-> title, new_title |-> new_title,
     new_body |-> new_body, ancestor_titles |-> ancestor_titles]

CreatePage(title, new_body, ancestor_titles) ==
    Action("CreatePage", title, title, new_body, ancestor_titles)
UpdatePage(title, new_body, ancestor_titles) ==
    Action("UpdatePage", title, title, new_body, ancestor_titles)
DeletePage(title) == Action("DeletePage", title, title, NoBody, <<>>)
MovePage(title, new_title, ancestor_titles) ==
    Action("MovePage", title, new_title, NoBody, ancestor_titles)
\* super().__init__(ancestor_titles[-1], PAGE_BODY_LIST_CHILDREN, ancestor_titles[:-1])
EnsureAncestors(ancestor_titles) ==
    Action("EnsureAncestors", SeqLast(ancestor_titles), SeqLast(ancestor_titles),
           PAGE_BODY_LIST_CHILDREN, SeqFront(ancestor_titles))
CleanupEmptyAncestors(title) ==
    Action("CleanupEmptyAncestors", title, title, NoBody, <<>>)

\* Delta.__init__
EmptyDelta ==
    [deletes |-> <<>>, start_renames |-> <<>>, adds |-> <<>>,
     finish_renames |-> <<>>, updates |-> <<>>, error |-> "none", uuids |-> 0]

\* One iteration of the loop of Delta.from_modifications; me.uuids counts the
\* uuid4() calls made so far, u0 is the first token of this build.
\* A classification that keeps Modifications without a path and files the
\* update of a rename before its finishing move.
FromModification_Misfiled(me, mod, u0) ==
    IF me.error # "none" THEN me
    ELSE IF path(mod) = NoPath
    THEN [me EXCEPT !.adds = Append(@, CreatePage(T("Index"), NoBody, <<>>))]
    ELSE LET title == TitleOfPath(path(mod))
             ancestors == AncestorsOfPath(path(mod))
             body == markdown_to_storage(mod.source_code)
         IN IF mod.change_type = "ADD"
            THEN [me EXCEPT !.adds = Append(@, CreatePage(title, body, ancestors))]
            ELSE IF mod.change_type = "MODIFY"
            THEN [me EXCEPT !.updates = Append(@, UpdatePage(title, body, ancestors))]
            ELSE IF mod.change_type = "DELETE"
            THEN [me EXCEPT !.deletes = Append(@, DeletePage(title))]
            ELSE IF mod.change_type = "RENAME" /\ previous_path(mod) # NoPath
            THEN LET old_title == TitleOfPath(previous_path(mod))
                     tmp == temporary_title(u0 + me.uuids, old_title)
                 IN [me EXCEPT
                       !.start_renames = Append(@, MovePage(old_title, tmp, <<>>)),
                       !.finish_renames = @ \o <<UpdatePage(title, body, ancestors),
                                                 MovePage(tmp, title, ancestors)>>,
                       !.uuids = @ + 1]
            ELSE [me EXCEPT !.error = "unsupported"]

FromModification(me, mod, u0) ==
    IF me.error # "none" THEN me
    ELSE IF path(mod) = NoPath THEN me
    ELSE LET title == TitleOfPath(path(mod))
             ancestors == AncestorsOfPath(path(mod))
             body == markdown_to_storage(mod.source_code)
         IN IF mod.change_type = "ADD"
            THEN [me EXCEPT !.adds = Append(@, CreatePage(title, body, ancestors))]
            ELSE IF mod.change_type = "MODIFY"
            THEN [me EXCEPT !.updates = Append(@, UpdatePage(title, body, ancestors))]
            ELSE IF mod.change_type = "DELETE"
            THEN [me EXCEPT !.deletes = Append(@, DeletePage(title))]
            ELSE IF mod.change_type = "RENAME" /\ previous_path(mod) # NoPath
            THEN LET old_title == TitleOfPath(previous_path(mod))
                     tmp == temporary_title(u0 + me.uuids, old_title)
                 IN [me EXCEPT
                       !.start_renames = Append(@, MovePage(old_title, tmp, <<>>)),
                       !.finish_renames = @ \o <<MovePage(tmp, title, ancestors),
                                                 UpdatePage(title, body, ancestors)>>,
                       !.uuids = @ + 1]
            ELSE [me EXCEPT !.error = "unsupported"]

RECURSIVE FromModificationsLoop(_, _, _, _)
FromModificationsLoop(me, modifications, k, u0) ==
    IF k > Len(modifications) THEN me
    ELSE FromModificationsLoop(FromModification(me, modifications[k], u0),
                               modifications, k + 1, u0)

from_modifications(modifications, u0) ==
    FromModificationsLoop(EmptyDelta, modifications, 1, u0)

\* x.execute(api_client): dispatch on the class of the action.
Execute(w, a) ==
    IF a.kind = "CreatePage"
    THEN CreatePage_execute(w, a.title, a.new_body, a.ancestor_titles)
    ELSE IF a.kind = "UpdatePage"
    THEN UpdatePage_execute(w, a.title, a.new_body, a.ancestor_titles)
    ELSE IF a.kind = "DeletePage"
    THEN DeletePage_execute(w, a.title)
    ELSE IF a.kind = "EnsureAncestors"
    THEN EnsureAncestors_execute(w, Append(a.ancestor_titles, a.title))
    ELSE IF a.kind = "CleanupEmptyAncestors"
    THEN CleanupEmptyAncestors_execute(w, a.title)
    ELSE MovePage_execute(w, a.title, a.new_title, a.ancestor_titles)

\* Other orders of the five passes.
BucketOrder_Reversed == <<"updates", "finish_renames", "adds", "start_renames", "deletes">>
BucketOrder_FinishFirst == <<"deletes", "start_renames", "finish_renames", "adds", "updates">>
BucketOrder_AddsFirst == <<"adds", "deletes", "start_renames", "finish_renames", "updates">>

\* The order of the five for_all lines of Delta.execute.
BucketOrder == <<"deletes", "start_renames", "adds", "finish_renames", "updates">>

BucketNo(b) == CHOOSE k \in DOMAIN BucketOrder : BucketOrder[k] = b

\* The next action for_all reaches from bucket number k, index i: exhausted
\* buckets are left for the next line of Delta.execute.
RECURSIVE NextPos(_, _, _)
NextPos(d, k, i) ==
    IF k > Len(BucketOrder) THEN <<"done", 1>>
    ELSE IF i <= Len(d[BucketOrder[k]]) THEN <<BucketOrder[k], i>>
    ELSE NextPos(d, k + 1, 1)

World(pg, nid, f) ==
    [pages |-> pg, nextId |-> nid, calls |-> <<>>, fuel |-> f, st |-> "ok", ret |-> {}]

\* util.for_all over one bucket, from a world, with no accessor failure.
RECURSIVE for_all(_, _, _)
for_all(w, items, k) ==
    IF k > Len(items) \/ w.st # "ok" THEN w
    ELSE for_all(Execute(w, items[k]), items, k + 1)

\* Delta.execute run to its end in one piece (the uninterrupted run).
Delta_execute(w, d) ==
    for_all(for_all(for_all(for_all(for_all(w,
        d.deletes, 1), d.start_renames, 1), d.adds, 1), d.finish_renames, 1),
        d.updates, 1)

-----------------------------------------------------------------------------
(* Bounds and the inputs drawn                                             *)

MaxBatch == 2       \* modifications in a history unit
MaxFuel == 12       \* the accessor failure is injected at call 0..MaxFuel of an action
MaxRuns == 2        \* calls of Delta.execute on one starting tree

\* -1: the accessor does not fail during the action.
FuelChoices == {-1} \cup (0 .. MaxFuel)

Page(title, parent, body) == [title |-> title, parent |-> parent, body |-> body, ver |-> 1]
Home == Page(HomeTitle, NoParent, <<"storage", "home">>)
Leaf(name, parent) == Page(T(name), parent, <<"storage", "old">>)
Index(name, parent) == Page(T(name), parent, PAGE_BODY_LIST_CHILDREN)

\* Starting trees (page ids are the positions; the homepage is page 1).
InitTrees ==
    { <<Home, Leaf("Foo", 1)>>,
      <<Home, Index("Widgets", 1), Leaf("X", 2), Leaf("Foo", 1)>>,
      <<Home, Index("A", 1), Index("B", 2), Leaf("X", 3), Leaf("Foo", 1)>>,
      <<Home, Index("A", 1), Index("B", 2), Leaf("X", 3)>>,
      <<Home, Index("A", 1), Leaf("X", 2), Leaf("Y", 2)>> }

Mods ==
    { Modification(NoPath, P(<<"Bar">>, "Index"), "ADD", "new"),
      Modification(P(<<>>, "Foo"), P(<<"Bar">>, "Foo"), "RENAME", "new"),
      Modification(P(<<>>, "Widgets"), NoPath, "DELETE", ""),
      Modification(NoPath, P(<<>>, "Widgets"), "ADD", "new"),
      Modification(P(<<"A", "B">>, "X"), NoPath, "DELETE", ""),
      Modification(P(<<"A">>, "X"), P(<<>>, "X"), "RENAME", "new"),
      Modification(P(<<>>, "Foo"), P(<<>>, "Foo"), "MODIFY", "new"),
      Modification(NoPath, P(<<"A", "B", "C">>, "Doc"), "ADD", "new"),
      Modification(P(<<>>, "Foo"), NoPath, "DELETE", ""),
      Modification(P(<<>>, "Foo"), P(<<>>, "Baz"), "RENAME", "new"),
      Modification(P(<<>>, "Bar"), NoPath, "DELETE", "") }

\* A unit in which a Delete targets the title an Add needs as a folder.
FolderSwapBatch ==
    << Modification(P(<<>>, "Bar"), NoPath, "DELETE", ""),
       Modification(NoPath, P(<<"Bar">>, "Index"), "ADD", "new"),
       Modification(P(<<>>, "Foo"), P(<<>>, "Foo"), "MODIFY", "new") >>

Batches ==
    { b \in UNION { [1 .. n -> Mods] : n \in 1 .. MaxBatch } :
        \A i, j \in DOMAIN b : i # j => b[i] # b[j] }
    \cup {FolderSwapBatch}

\* The page actions executed one at a time (SpecActions).
MaxOps == 2         \* page actions executed in a row on one starting tree

UnitChains ==
    { <<>>, <<T("A")>>, <<T("B")>>, <<T("A"), T("B")>>, <<T("A"), T("B"), T("C")>> }

UnitCreates ==
    { CreatePage(t, markdown_to_storage("new"), c) :
        t \in {T("X"), T("Doc"), T("A")}, c \in UnitChains }
UnitUpdates ==
    { UpdatePage(t, markdown_to_storage("new"), c) :
        t \in {T("X"), T("Doc"), T("A")}, c \in UnitChains }
UnitDeletes == { DeletePage(t) : t \in {T("A"), T("B"), T("X"), T("Ghost")} }
UnitEnsures == { EnsureAncestors(c) : c \in UnitChains \ {<<>>} }
UnitCleanups ==
    { CleanupEmptyAncestors(t) : t \in {T("A"), T("B"), T("Widgets"), T("Ghost")} }
UnitMoves ==
    { MovePage(t[1], t[2], c) :
        t \in {T("X"), T("Ghost"), T("B")} \X {T("GhostNew"), T("X")},
        c \in UnitChains }

-----------------------------------------------------------------------------
(* The run: build, the five passes, replay, rebuild                        *)

\* No history units: one Delta is built and executed on its own.
NoDriver == [units |-> <<>>, deltas |-> <<>>, unit |-> 0]

Init ==
    /\ pages \in InitTrees
    /\ nextId = Len(pages) + 1
    /\ nextUuid = 1
    /\ feed \in Batches
    /\ delta = EmptyDelta
    /\ pc = "build"
    /\ idx = 1
    /\ run = 0
    /\ status = "ok"
    /\ log = <<>>
    /\ hist = [tree0 |-> pages, how |-> "none", runs |-> <<>>]
    /\ last = [action |-> DeletePage(HomeTitle), before |-> pages, st |-> "none",
               calls |-> <<>>]
    /\ driver = NoDriver

RunSummary(how, st, pg, d, n, firstCall) ==
    [how |-> how, st |-> st, pages |-> pg, delta |-> d, logLen |-> n,
     firstCall |-> firstCall]

\* cli.delta: Delta.from_modifications(...), then delta.execute(...).
StartAt(d, how, pos) ==
    /\ delta' = d
    /\ nextUuid' = nextUuid + d.uuids
    /\ pc' = pos[1]
    /\ idx' = pos[2]
    /\ run' = run + 1
    /\ status' = IF d.error = "none" THEN "ok" ELSE d.error
    /\ hist' = IF pos[1] \in {"done", "failed"}
               THEN [hist EXCEPT !.how = how,
                                 !.runs = Append(@, RunSummary(how, status', pages, d,
                                                               Len(log), Len(log) + 1))]
               ELSE [hist EXCEPT !.how = how]
    /\ UNCHANGED <<pages, nextId, feed, log, last>>

StartRun(d, how) ==
    StartAt(d, how, IF d.error = "none" THEN NextPos(d, 1, 1) ELSE <<"failed", 1>>)

Build ==
    /\ pc = "build"
    /\ StartRun(from_modifications(feed, nextUuid), "execute")
    /\ UNCHANGED driver

\* The same Delta object is executed again.
Replay ==
    /\ pc \in {"done", "failed"}
    /\ delta.error = "none"
    /\ run < MaxRuns
    /\ StartRun([delta EXCEPT !.uuids = 0], "replay")
    /\ UNCHANGED driver

\* The reconciliation is run again: the Delta is built anew from the same
\* Modifications.
Rebuild ==
    /\ pc = "failed"
    /\ run < MaxRuns
    /\ StartRun(from_modifications(feed, nextUuid), "rebuild")
    /\ UNCHANGED driver

FirstCallOfRun == IF hist.runs = <<>> THEN 1 ELSE hist.runs[Len(hist.runs)].logLen + 1

\* The state after the action at <<b, idx>> left the world w.
Executed(b, a, w, pos) ==
    /\ pages' = w.pages
    /\ nextId' = w.nextId
    /\ log' = log \o [k \in DOMAIN w.calls |->
                        [run |-> run, bucket |-> b, idx |-> idx, call |-> w.calls[k]]]
    /\ status' = w.st
    /\ last' = [action |-> a, before |-> pages, st |-> w.st, calls |-> w.calls]
    /\ pc' = pos[1]
    /\ idx' = pos[2]
    /\ hist' = IF pos[1] \in {"done", "failed"}
               THEN [hist EXCEPT !.runs =
                        Append(@, RunSummary(hist.how, w.st, w.pages, delta,
                                             Len(log) + Len(w.calls), FirstCallOfRun))]
               ELSE hist

\* A pass that carries on with the next action whatever the last one raised.
After_Continue(b, st) == NextPos(delta, BucketNo(b), idx + 1)

\* A pass that neither goes on nor raises after an action that failed.
After_Hang(b, st) ==
    IF st = "ok" THEN NextPos(delta, BucketNo(b), idx + 1) ELSE <<"hung", 1>>

\* Where Delta.execute goes after an action that left status st.
After(b, st) ==
    IF st = "ok" THEN NextPos(delta, BucketNo(b), idx + 1) ELSE <<"failed", 1>>

ExecutedAction(b, a, w) == Executed(b, a, w, After(b, w.st))

\* One item of for_all(self.<bucket>, lambda x: x.execute(api_client)).
ExecBucket(b) ==
    /\ \E f \in FuelChoices :
         ExecutedAction(b, delta[b][idx],
                        Execute(World(pages, nextId, f), delta[b][idx]))
    /\ UNCHANGED <<nextUuid, feed, delta, run, driver>>

ExecDeletes ==
    /\ pc = "deletes"
    /\ ExecBucket("deletes")

ExecStartRenames ==
    /\ pc = "start_renames"
    /\ ExecBucket("start_renames")

ExecAdds ==
    /\ pc = "adds"
    /\ ExecBucket("adds")

ExecFinishRenames ==
    /\ pc = "finish_renames"
    /\ ExecBucket("finish_renames")

ExecUpdates ==
    /\ pc = "updates"
    /\ ExecBucket("updates")


Next ==
    \/ Build
    \/ ExecDeletes
    \/ ExecStartRenames
    \/ ExecAdds
    \/ ExecFinishRenames
    \/ ExecUpdates
    \/ Replay
    \/ Rebuild

Spec == Init /\ [][Next]_vars

-----------------------------------------------------------------------------
(* The page actions executed one at a time, on every tree a few of them    *)
(* reach from a starting tree, with no accessor failure                    *)

InitActions ==
    /\ pages \in InitTrees
    /\ nextId = Len(pages) + 1
    /\ nextUuid = 1
    /\ feed = <<>>
    /\ delta = EmptyDelta
    /\ pc = "unit"
    /\ idx = 1
    /\ run = 0
    /\ status = "ok"
    /\ log = <<>>
    /\ hist = [tree0 |-> pages, how |-> "none", runs |-> <<>>]
    /\ last = [action |-> DeletePage(HomeTitle), before |-> pages, st |-> "none",
               calls |-> <<>>]
    /\ driver = NoDriver

ExecutedOne(a, w) ==
    /\ pages' = w.pages
    /\ nextId' = w.nextId
    /\ status' = w.st
    /\ last' = [action |-> a, before |-> pages, st |-> w.st, calls |-> w.calls]
    /\ log' = log \o [k \in DOMAIN w.calls |->
                        [run |-> run + 1, bucket |-> "unit", idx |-> 1,
                         call |-> w.calls[k]]]

ExecOne(actions) ==
    /\ \E a \in actions : ExecutedOne(a, Execute(World(pages, nextId, -1), a))
    /\ run' = run + 1
    /\ UNCHANGED <<nextUuid, feed, delta, pc, idx, hist, driver>>

UnitCreate ==
    /\ pc = "unit" /\ run < MaxOps
    /\ ExecOne(UnitCreates)

UnitUpdate ==
    /\ pc = "unit" /\ run < MaxOps
    /\ ExecOne(UnitUpdates)

UnitDelete ==
    /\ pc = "unit" /\ run < MaxOps
    /\ ExecOne(UnitDeletes)

UnitMove ==
    /\ pc = "unit" /\ run < MaxOps
    /\ ExecOne(UnitMoves)

UnitEnsure ==
    /\ pc = "unit" /\ run < MaxOps
    /\ ExecOne(UnitEnsures)

UnitCleanup ==
    /\ pc = "unit" /\ run < MaxOps
    /\ ExecOne(UnitCleanups)

NextActions ==
    \/ UnitCreate
    \/ UnitUpdate
    \/ UnitDelete
    \/ UnitMove
    \/ UnitEnsure
    \/ UnitCleanup

SpecActions == InitActions /\ [][NextActions]_vars

-----------------------------------------------------------------------------
(* cli.delta over several history units (commits, oldest first): the       *)
(* Deltas of all units are built, then executed one after the other        *)

MaxUnits == 2       \* history units in one invocation

DriverTrees ==
    { <<Home, Leaf("Foo", 1)>>,
      <<Home, Index("A", 1), Index("B", 2), Leaf("X", 3), Leaf("Foo", 1)>>,
      <<Home, Leaf("Foo", 1), Leaf("Baz", 1)>>,
      <<Home, Leaf("A", 1), Leaf("Foo", 1)>>,
      <<Home, Index("Foo", 1), Leaf("Bar", 2)>> }

\* The Modifications of a history unit.
DriverBatches ==
    { << Modification(NoPath, P(<<"A">>, "A"), "ADD", "new") >>,
      << Modification(P(<<>>, "Foo"), P(<<>>, "Baz"), "RENAME", "new"),
         Modification(P(<<>>, "Baz"), P(<<>>, "Foo"), "RENAME", "new") >>,
      << Modification(P(<<>>, "Baz"), NoPath, "DELETE", ""),
         Modification(P(<<>>, "Foo"), P(<<>>, "Baz"), "RENAME", "new") >>,
      << Modification(P(<<>>, "A"), P(<<"A">>, "Foobar"), "RENAME", "new") >>,
      << Modification(P(<<>>, "Foo"), P(<<>>, "Foo"), "MODIFY", "new") >>,
      << Modification(NoPath, P(<<"Bar">>, "Index"), "ADD", "new"),
         Modification(P(<<>>, "Foo"), P(<<>>, "Foo"), "UNKNOWN", "new") >>,
      << Modification(NoPath, P(<<>>, "Foo"), "RENAME", "new") >>,
      << Modification(P(<<>>, "Foo"), P(<<>>, "X"), "RENAME", "new") >>,
      << Modification(P(<<"A", "B">>, "X"), NoPath, "DELETE", "") >>,
      << Modification(P(<<>>, "Foo"), P(<<"B">>, "Foo"), "RENAME", "new") >>,
      << Modification(NoPath, NoPath, "ADD", "lost"),
         Modification(P(<<>>, "Foo"), P(<<>>, "Foo"), "MODIFY", "new") >>,
      << Modification(NoPath, P(<<"Bar">>, "Index"), "ADD", "new"),
         Modification(P(<<"A", "B">>, "X"), NoPath, "DELETE", ""),
         Modification(NoPath, P(<<>>, "Doc"), "ADD", "other") >>,
      << Modification(NoPath, P(<<>>, "Foo"), "ADD", "new"),
         Modification(P(<<"Foo">>, "Bar"), P(<<>>, "Bar"), "RENAME", "new") >>,
      << Modification(P(<<"Foo">>, "Bar"), NoPath, "DELETE", "") >>,
      << Modification(NoPath, P(<<"A", "B">>, "X"), "ADD", "new") >> }

\* find_commits_on_branch_after: the units, oldest first.
DriverFeeds == UNION { [1 .. n -> DriverBatches] : n \in 1 .. MaxUnits }

InitDriver ==
    /\ pages \in DriverTrees
    /\ nextId = Len(pages) + 1
    /\ nextUuid = 1
    /\ feed = <<>>
    /\ delta = EmptyDelta
    /\ pc = "read"
    /\ idx = 1
    /\ run = 0
    /\ status = "ok"
    /\ log = <<>>
    /\ hist = [tree0 |-> pages, how |-> "none", runs |-> <<>>]
    /\ last = [action |-> DeletePage(HomeTitle), before |-> pages, st |-> "none",
               calls |-> <<>>]
    /\ \E units \in DriverFeeds : driver = [units |-> units, deltas |-> <<>>, unit |-> 0]

\* A build that keeps the Delta of a unit whatever from_modifications raised.
UnitBuilt_IgnoreError(d) ==
    /\ nextUuid' = nextUuid + d.uuids
    /\ driver' = [driver EXCEPT !.deltas = Append(@, d)]
    /\ UNCHANGED <<pc, status>>

\* The Delta of the next unit has been built: d.
UnitBuilt(d) ==
    /\ nextUuid' = nextUuid + d.uuids
    /\ IF d.error = "none"
       THEN /\ driver' = [driver EXCEPT !.deltas = Append(@, d)]
            /\ UNCHANGED <<pc, status>>
       ELSE /\ pc' = "failed"
            /\ status' = d.error
            /\ UNCHANGED driver

\* One item of the dict comprehension of cli.delta: the Modifications of
\* the next unit are read and its Delta is built.
ReadUnit ==
    /\ pc = "read"
    /\ Len(driver.deltas) < Len(driver.units)
    /\ UnitBuilt(from_modifications(driver.units[Len(driver.deltas) + 1], nextUuid))
    /\ UNCHANGED <<pages, nextId, feed, delta, idx, run, log, hist, last>>

\* A driver that executes a Delta as soon as it is built.
StartUnit_Eager ==
    /\ pc \in {"read", "done"}
    /\ driver.unit < Len(driver.deltas)
    /\ StartRun([driver.deltas[driver.unit + 1] EXCEPT !.uuids = 0], "execute")
    /\ driver' = [driver EXCEPT !.unit = @ + 1]

\* for delta in deltas.values(): delta.execute(my_ctx.confluence)
StartUnit ==
    /\ \/ pc = "read" /\ Len(driver.deltas) = Len(driver.units)
       \/ pc = "done"
    /\ driver.unit < Len(driver.deltas)
    /\ StartRun([driver.deltas[driver.unit + 1] EXCEPT !.uuids = 0], "execute")
    /\ driver' = [driver EXCEPT !.unit = @ + 1]

NextDriver ==
    \/ ReadUnit
    \/ StartUnit
    \/ ExecDeletes
    \/ ExecStartRenames
    \/ ExecAdds
    \/ ExecFinishRenames
    \/ ExecUpdates

SpecDriver == InitDriver /\ [][NextDriver]_vars

\* The command run again after a run that a failed remote call ended:
\* cli.delta is invoked with a SINCE that lies before the unit that failed,
\* on the tree as the failed run left it, and builds the Deltas of the
\* units after SINCE anew.
MaxStarts == MaxUnits + 1   \* Deltas started over all invocations

Rerun ==
    /\ pc = "failed"
    /\ status = "accessor"
    /\ run < MaxStarts
    /\ \E since \in 0 .. Len(driver.units) - 1 :
          /\ since < driver.unit \/ since = 0
          /\ driver' = [units |-> SubSeq(driver.units, since + 1, Len(driver.units)),
                        deltas |-> <<>>, unit |-> 0]
    /\ pc' = "read"
    /\ status' = "ok"
    /\ idx' = 1
    /\ UNCHANGED <<pages, nextId, nextUuid, feed, delta, run, log, hist, last>>

NextRerun ==
    \/ ReadUnit
    \/ StartUnit
    \/ ExecDeletes
    \/ ExecStartRenames
    \/ ExecAdds
    \/ ExecFinishRenames
    \/ ExecUpdates
    \/ Rerun

SpecRerun == InitDriver /\ [][NextRerun]_vars

\* The adds pass on its own: batches of Add modifications, the files of
\* one directory tree, with pairwise distinct file names.
MaxAdds == 3        \* Modifications of a batch of Adds

AddTrees ==
    { <<Home, Leaf("Foo", 1)>>,
      <<Home, Index("A", 1), Index("B", 2), Leaf("X", 3)>>,
      <<Home, Leaf("A", 1), Leaf("Foo", 1)>> }

AddMods ==
    { Modification(NoPath, P(<<>>, "A"), "ADD", "a"),
      Modification(NoPath, P(<<"A">>, "X"), "ADD", "x"),
      Modification(NoPath, P(<<"B">>, "A"), "ADD", "ba"),
      Modification(NoPath, P(<<"A", "B">>, "Doc"), "ADD", "doc"),
      Modification(NoPath, P(<<>>, "B"), "ADD", "b"),
      Modification(NoPath, P(<<"A", "B", "C">>, "Y"), "ADD", "y") }

AddBatches ==
    { b \in UNION { [1 .. n -> AddMods] : n \in 1 .. MaxAdds } :
        \A i, j \in DOMAIN b :
            i # j => TitleOfPath(path(b[i])) # TitleOfPath(path(b[j])) }

InitAdds ==
    /\ pages \in AddTrees
    /\ nextId = Len(pages) + 1
    /\ nextUuid = 1
    /\ feed \in AddBatches
    /\ delta = EmptyDelta
    /\ pc = "build"
    /\ idx = 1
    /\ run = 0
    /\ status = "ok"
    /\ log = <<>>
    /\ hist = [tree0 |-> pages, how |-> "none", runs |-> <<>>]
    /\ last = [action |-> DeletePage(HomeTitle), before |-> pages, st |-> "none",
               calls |-> <<>>]
    /\ driver = NoDriver

NextAdds ==
    \/ Build
    \/ ExecAdds

SpecAdds == InitAdds /\ [][NextAdds]_vars

\* ---- cli.delta's filter: the Modifications of one commit, limited to the
\* content folder (SpecFilter) ----

MaxRepoMods == 2    \* Modifications in the commit that is filtered

\* Path.parents: the folders above a file, the repository root (<<>>) included.
parents(p) == {SubSeq(p.dirs, 1, n) : n \in 0 .. Len(p.dirs)}

\* Path.relative_to(folder), for a folder among the parents of p.
relative_to(p, folder) ==
    [p EXCEPT !.dirs = SubSeq(p.dirs, Len(folder) + 1, Len(p.dirs))]

\* A filter that hands every Modification it keeps over with its own type.
filter_modification_KeepType(mod, folder) ==
    LET new_path_in_folder ==
            IF path(mod) # NoPath THEN folder \in parents(path(mod)) ELSE FALSE
        old_path_in_folder ==
            IF previous_path(mod) # NoPath THEN folder \in parents(previous_path(mod))
            ELSE FALSE
    IN IF new_path_in_folder \/ old_path_in_folder
       THEN << Modification(
                 IF previous_path(mod) # NoPath /\ old_path_in_folder
                 THEN relative_to(previous_path(mod), folder) ELSE NoPath,
                 IF path(mod) # NoPath /\ new_path_in_folder
                 THEN relative_to(path(mod), folder) ELSE NoPath,
                 mod.change_type, mod.source_code) >>
       ELSE <<>>

\* The body of the loop of filter_modifications_to_folder: what it yields
\* for one Modification (nothing, or one Modification).
filter_modification(mod, folder) ==
    LET new_path_in_folder ==
            IF path(mod) # NoPath THEN folder \in parents(path(mod)) ELSE FALSE
        old_path_in_folder ==
            IF previous_path(mod) # NoPath THEN folder \in parents(previous_path(mod))
            ELSE FALSE
        modification_type ==
            IF new_path_in_folder /\ ~old_path_in_folder /\ previous_path(mod) # NoPath
            THEN "ADD"
            ELSE IF ~new_path_in_folder /\ old_path_in_folder /\ previous_path(mod) # NoPath
            THEN "DELETE"
            ELSE mod.change_type
    IN IF new_path_in_folder \/ old_path_in_folder
       THEN << Modification(
                 IF previous_path(mod) # NoPath /\ old_path_in_folder
                 THEN relative_to(previous_path(mod), folder) ELSE NoPath,
                 IF path(mod) # NoPath /\ new_path_in_folder
                 THEN relative_to(path(mod), folder) ELSE NoPath,
                 modification_type, mod.source_code) >>
       ELSE <<>>

RECURSIVE filter_modifications_to_folder(_, _)
filter_modifications_to_folder(modifications, folder) ==
    IF modifications = <<>> THEN <<>>
    ELSE filter_modification(Head(modifications), folder)
            \o filter_modifications_to_folder(Tail(modifications), folder)

\* Modifications as get_modifications reads them from a commit, with paths
\* from the repository root.
RepoMods ==
    { Modification(NoPath, P(<<"docs">>, "A"), "ADD", "new"),
      Modification(NoPath, P(<<>>, "README"), "ADD", "new"),
      Modification(P(<<"docs", "A">>, "X"), P(<<"docs", "A">>, "X"), "MODIFY", "new"),
      Modification(P(<<"docs">>, "B"), NoPath, "DELETE", ""),
      Modification(P(<<"docs", "A">>, "Y"), P(<<"docs", "A">>, "Y"), "DELETE", ""),
      Modification(P(<<"other">>, "Foo"), P(<<"docs">>, "Foo"), "RENAME", "new"),
      Modification(P(<<"docs">>, "Bar"), P(<<"other">>, "Bar"), "RENAME", "new"),
      Modification(P(<<"docs", "A">>, "X"), P(<<"docs">>, "X"), "RENAME", "new"),
      Modification(P(<<"other">>, "Z"), P(<<"other">>, "Z"), "MODIFY", "new"),
      Modification(P(<<"docs">>, "A"), P(<<"docs">>, "A"), "UNKNOWN", "new"),
      Modification(NoPath, NoPath, "ADD", "lost") }

RepoBatches ==
    { b \in UNION { [1 .. n -> RepoMods] : n \in 1 .. MaxRepoMods } :
        \A i, j \in DOMAIN b : i # j => b[i] # b[j] }

\* --content-path, or the repository itself.
Folders == { <<>>, <<"docs">>, <<"docs", "A">> }

InitFilter ==
    /\ pages = <<Home>>
    /\ nextId = Len(pages) + 1
    /\ nextUuid = 1
    /\ feed = <<>>
    /\ delta = EmptyDelta
    /\ pc = "filter"
    /\ idx = 1
    /\ run = 0
    /\ status = "ok"
    /\ log = <<>>
    /\ hist = [tree0 |-> pages, how |-> "none", runs |-> <<>>]
    /\ last = [action |-> DeletePage(HomeTitle), before |-> pages, st |-> "none",
               calls |-> <<>>]
    /\ \E b \in RepoBatches, folder \in Folders :
          driver = [units |-> <<b>>, deltas |-> <<>>, unit |-> 0, folder |-> folder]

\* filter_modifications_to_folder(get_modifications(c), filter_path)
Filter ==
    /\ pc = "filter"
    /\ feed' = filter_modifications_to_folder(driver.units[1], driver.folder)
    /\ pc' = "build"
    /\ UNCHANGED <<pages, nextId, nextUuid, delta, idx, run, status, log, hist, last,
                   driver>>

NextFilter ==
    \/ Filter
    \/ Build

SpecFilter == InitFilter /\ [][NextFilter]_vars

-----------------------------------------------------------------------------
(* Properties                                                              *)

R(k) == hist.runs[k]

\* The remote calls of run k, and the mutations among a list of calls.
CallsOfRun(k) ==
    [i \in 1 .. (R(k).logLen - R(k).firstCall + 1) |-> log[R(k).firstCall + i - 1].call]
Mutations(calls) == SelectSeq(calls, LAMBDA c : c.op # "get")
OpsOf(calls) == {calls[i].op : i \in DOMAIN calls}
IsPrefix(s, t) == Len(s) <= Len(t) /\ SubSeq(t, 1, Len(s)) = s

Titles(pg) == {pg[i].title : i \in DOMAIN pg}
\* The titles of the ancestors of page i, the homepage left out.
ChainH(pg, i) == TitlesOf(pg, SelectSeq(Ancestors(pg, i), LAMBDA x : x # HomeId))
\* A tree as titles, parent relation and bodies: what lies below the
\* homepage, each page with the titles of its ancestors.
ShapeH(pg) == {<<pg[i].title, ChainH(pg, i), pg[i].body>> : i \in DOMAIN pg \ {HomeId}}
SameTree(p, q) ==
    /\ DOMAIN p = DOMAIN q
    /\ \A i \in DOMAIN p :
          p[i].title = q[i].title /\ p[i].parent = q[i].parent /\ p[i].body = q[i].body

\* The first run's Delta executed from the starting tree with no failure.
Uninterrupted == Delta_execute(World(hist.tree0, Len(hist.tree0) + 1, -1), R(1).delta)

Passes == {"deletes", "start_renames", "adds", "finish_renames", "updates"}
PassRank(b) ==
    CASE b = "deletes" -> 1 [] b = "start_renames" -> 2 [] b = "adds" -> 3
      [] b = "finish_renames" -> 4 [] b = "updates" -> 5
PosBefore(p, q) ==
    PassRank(p[1]) < PassRank(q[1]) \/ (p[1] = q[1] /\ p[2] < q[2])
Positions == UNION {{<<b, i>> : i \in DOMAIN delta[b]} : b \in Passes}
HasRun(p) ==
    \E k \in DOMAIN log : log[k].run = run /\ log[k].bucket = p[1] /\ log[k].idx = p[2]

\* C1: Delta.execute runs deletes, start_renames, adds, finish_renames, updates
\* in this order: the remote calls of a run appear pass by pass and, within a
\* pass, in list order; when an action is about to start, exactly the actions
\* before it have run; a run that completes has run every action.
C1_PassOrder ==
    /\ \A i \in 1 .. Len(log) - 1 :
          log[i].run = log[i + 1].run =>
             \/ PosBefore(<<log[i].bucket, log[i].idx>>, <<log[i + 1].bucket, log[i + 1].idx>>)
             \/ <<log[i].bucket, log[i].idx>> = <<log[i + 1].bucket, log[i + 1].idx>>
    /\ pc \in Passes => \A p \in Positions : HasRun(p) <=> PosBefore(p, <<pc, idx>>)
    /\ (pc = "done" /\ status = "ok") => \A p \in Positions : HasRun(p)

C1_Witness ==
    /\ pc = "done" /\ status = "ok" /\ run = 1
    /\ Cardinality({log[k].bucket : k \in DOMAIN log}) >= 3

\* Run k completed and the same Delta was executed again, with no accessor failure.
ReplayOfCompleted(k) ==
    /\ k + 1 \in DOMAIN hist.runs
    /\ R(k).st = "ok"
    /\ R(k + 1).how = "replay"
    /\ R(k + 1).st # "accessor"

\* An update call that re-submits what the page holds.
NoOpUpdate(pg, c) ==
    /\ c.op = "update" /\ c.id \in DOMAIN pg
    /\ pg[c.id].title = c.title /\ pg[c.id].parent = c.parent /\ pg[c.id].body = c.body

NoRenames(d) == d.start_renames = <<>> /\ d.finish_renames = <<>>
DeletesGone(d, pg) ==
    \A i \in DOMAIN d.deletes : get_page_results(pg, d.deletes[i].title) = {}
Targets(d) ==
    {d.adds[i] : i \in DOMAIN d.adds} \cup {d.updates[i] : i \in DOMAIN d.updates}
\* The target of action a is a page under the homepage and a's ancestor chain.
InPlace(pg, a) ==
    \E i \in DOMAIN pg :
        /\ pg[i].title = a.title
        /\ TitlesOf(pg, Ancestors(pg, i)) = <<HomeTitle>> \o a.ancestor_titles
Replayable(d, pg) ==
    /\ NoRenames(d)
    /\ DeletesGone(d, pg)
    /\ \A a \in Targets(d) : InPlace(pg, a)

ReplayOfAborted ==
    /\ Len(hist.runs) >= 2
    /\ R(1).st = "accessor"
    /\ R(2).how = "replay"
    /\ R(2).st # "accessor"
    /\ Uninterrupted.st = "ok"

RenameHalfDone(i) ==
    /\ \E k \in DOMAIN log :
          /\ log[k].run = 1 /\ log[k].bucket = "start_renames" /\ log[k].idx = i
          /\ log[k].call.op = "update"
    /\ ~ \E k \in DOMAIN log :
          /\ log[k].run = 1 /\ log[k].bucket = "finish_renames" /\ log[k].idx = 2 * i - 1
          /\ log[k].call.op = "update"

\* C4 as stated: a run aborted between the start move and the finish move
\* of a Rename is recovered by building the Delta again from the same
\* Modifications and executing it: the second run completes, in the tree of
\* a failure-free run.
C4_RebuildRecovers ==
    ( /\ Len(hist.runs) >= 2
      /\ R(1).st = "accessor"
      /\ \E i \in DOMAIN R(1).delta.start_renames : RenameHalfDone(i)
      /\ R(2).how = "rebuild"
      /\ R(2).st # "accessor"
      /\ Uninterrupted.st = "ok" ) =>
        /\ R(2).st = "ok"
        /\ ShapeH(R(2).pages) = ShapeH(Uninterrupted.pages)

Creates(calls) == SelectSeq(calls, LAMBDA c : c.op = "create")

\* The ancestor titles to create for a chain: the titles after the deepest
\* one that exists, in chain order.
RECURSIVE MissingSuffix(_, _)
MissingSuffix(pg, chain) ==
    IF chain = <<>> \/ chain[Len(chain)] \in Titles(pg) THEN <<>>
    ELSE Append(MissingSuffix(pg, SubSeq(chain, 1, Len(chain) - 1)), chain[Len(chain)])

\* The page the first create of a chain goes under.
FirstParent(pg, chain, missing) ==
    IF Len(missing) = Len(chain)
    THEN (IF HomeId \in DOMAIN pg THEN HomeId ELSE NoParent)
    ELSE CHOOSE i \in DOMAIN pg : pg[i].title = chain[Len(chain) - Len(missing)]

\* C5: a CreatePage of an absent title creates the missing ancestors of its
\* chain root-first, each as a child of the one before it, and then the
\* target under the last; no create call names a parent that does not exist
\* when the call is made.
C5_AncestorCreationOrder ==
    /\ \A k \in DOMAIN log : log[k].call.op = "create" => log[k].call.parentLive
    /\ ( /\ last.st = "ok"
         /\ last.action.kind = "CreatePage"
         /\ last.action.title \notin Titles(last.before) ) =>
          LET cs == Creates(last.calls)
              missing == MissingSuffix(last.before, last.action.ancestor_titles)
          IN /\ [k \in DOMAIN cs |-> cs[k].title] = missing \o <<last.action.title>>
             /\ \A k \in 2 .. Len(cs) : cs[k].parent = cs[k - 1].id
             /\ cs[1].parent = FirstParent(last.before, last.action.ancestor_titles, missing)
             /\ \A k \in 1 .. Len(cs) - 1 : cs[k].body = PAGE_BODY_LIST_CHILDREN

C5_Witness ==
    /\ last.st = "ok"
    /\ last.action = CreatePage(T("Doc"), markdown_to_storage("new"), <<T("A"), T("B"), T("C")>>)
    /\ Titles(last.before) \cap {T("A"), T("B"), T("C"), T("Doc")} = {}
    /\ Len(Creates(last.calls)) = 4

Deletes(calls) == SelectSeq(calls, LAMBDA c : c.op = "delete")

\* The pages deleted above page n once the pages of `gone` are deleted: the
\* parent while it is left with no child page.
RECURSIVE CascadeAbove(_, _, _)
CascadeAbove(pg, n, gone) ==
    IF pg[n].parent \notin DOMAIN pg
       \/ \E c \in (DOMAIN pg) \ gone : pg[c].parent = pg[n].parent
    THEN <<>>
    ELSE <<pg[n].parent>> \o CascadeAbove(pg, pg[n].parent, gone \cup {pg[n].parent})

\* The pages a DeletePage of page id deletes, in order.  The child pages of
\* a deleted page stay in the tree, so its parent is not left empty.
ExpectedCascade(pg, id) ==
    <<id>> \o (IF \E c \in DOMAIN pg : pg[c].parent = id THEN <<>>
               ELSE CascadeAbove(pg, id, {id}))

\* C6: a DeletePage deletes its page, then the parent if that is left with
\* no child page, then the parent's parent likewise, in this order, and
\* stops at the first ancestor that still has child pages, deleting nothing
\* above it.
C6_CascadingCleanup ==
    ( /\ last.st = "ok"
      /\ last.action.kind = "DeletePage"
      /\ last.action.title \in Titles(last.before) ) =>
        /\ [k \in DOMAIN Deletes(last.calls) |-> Deletes(last.calls)[k].id]
              = ExpectedCascade(last.before,
                                CHOOSE i \in DOMAIN last.before :
                                    last.before[i].title = last.action.title)
        /\ DOMAIN pages = (DOMAIN last.before)
                            \ {Deletes(last.calls)[k].id : k \in DOMAIN Deletes(last.calls)}

C6_Witness ==
    /\ last.st = "ok"
    /\ last.action = DeletePage(T("X"))
    /\ [k \in DOMAIN Deletes(last.calls) |-> Deletes(last.calls)[k].title]
          = <<T("X"), T("B"), T("A")>>
    /\ HomeId \in DOMAIN pages

\* C7 as stated: no action deletes the space homepage.
C7_RootNeverDeleted == HomeId \in DOMAIN pages

RenameFooIntoBar == Modification(P(<<>>, "Foo"), P(<<"Bar">>, "Foo"), "RENAME", "new")
AddBarIndex == Modification(NoPath, P(<<"Bar">>, "Index"), "ADD", "new")

\* The batch of C8 on a tree with the page Foo below the homepage and
\* neither Bar nor Index.
C8_Case ==
    /\ feed \in {<<RenameFooIntoBar, AddBarIndex>>, <<AddBarIndex, RenameFooIntoBar>>}
    /\ HomeId \in DOMAIN hist.tree0
    /\ Cardinality(get_page_results(hist.tree0, T("Foo"))) = 1
    /\ \A i \in get_page_results(hist.tree0, T("Foo")) : hist.tree0[i].parent = HomeId
    /\ Titles(hist.tree0) \cap {T("Bar"), T("Index")} = {}

\* The mutations of the first run so far, as <<op, title, parent>>.
ObservedFirstRun ==
    LET m == SelectSeq(log, LAMBDA e : e.run = 1 /\ e.call.op # "get")
    IN [k \in DOMAIN m |-> <<m[k].call.op, m[k].call.title, m[k].call.parent>>]

\* Foo to its temporary title, Bar, Bar/Index, the temporary title to
\* Bar/Foo, the new body of Bar/Foo.
C8_Expected ==
    << <<"update", temporary_title(1, T("Foo")), HomeId>>,
       <<"create", T("Bar"), HomeId>>,
       <<"create", T("Index"), Len(hist.tree0) + 1>>,
       <<"update", T("Foo"), Len(hist.tree0) + 1>>,
       <<"update", T("Foo"), Len(hist.tree0) + 1>> >>

\* C8: for Rename Foo -> Bar/Foo and Add Bar/Index, in either feed order,
\* the mutations observed are the move of Foo to its temporary title, the
\* creation of Bar and of Bar/Index, then the move of the temporary title to
\* Bar/Foo: the final move never comes before Bar/Index exists.
C8_RenameSplitOrdering ==
    C8_Case =>
        /\ IsPrefix(ObservedFirstRun, C8_Expected)
        /\ (hist.runs # <<>> /\ R(1).st = "ok") => ObservedFirstRun = C8_Expected

C8_Witness ==
    /\ C8_Case
    /\ feed[1] = AddBarIndex
    /\ hist.runs # <<>> /\ R(1).st = "ok"
    /\ Len(ObservedFirstRun) = 5

DeleteWidgets == Modification(P(<<>>, "Widgets"), NoPath, "DELETE", "")
AddWidgets == Modification(NoPath, P(<<>>, "Widgets"), "ADD", "new")

\* The batch of C9 on a tree with one page Widgets that has child pages.
C9_Case ==
    /\ feed \in {<<DeleteWidgets, AddWidgets>>, <<AddWidgets, DeleteWidgets>>}
    /\ Cardinality(get_page_results(hist.tree0, T("Widgets"))) = 1
    /\ \A i \in get_page_results(hist.tree0, T("Widgets")) :
          \E c \in DOMAIN hist.tree0 : hist.tree0[c].parent = i

\* C9: for Delete Widgets (a page with child pages) and Add Widgets (a leaf
\* without ancestors), in either feed order, the delete is applied before
\* the add executes, and after the run exactly one page is titled Widgets:
\* a new page, with the added body and no child page.
C9_StructuralCollision ==
    C9_Case =>
        /\ \A i, j \in DOMAIN log :
              (log[i].run = 1 /\ log[j].run = 1
                 /\ log[i].bucket = "deletes" /\ log[j].bucket = "adds") => i < j
        /\ (run = 1 /\ pc = "adds") =>
              /\ T("Widgets") \notin Titles(pages)
              /\ \E k \in DOMAIN log : log[k].call.op = "delete"
                                        /\ log[k].call.title = T("Widgets")
        /\ (hist.runs # <<>> /\ R(1).st = "ok") =>
              /\ Cardinality(get_page_results(R(1).pages, T("Widgets"))) = 1
              /\ \A w \in get_page_results(R(1).pages, T("Widgets")) :
                    /\ w \notin DOMAIN hist.tree0
                    /\ R(1).pages[w].body = markdown_to_storage("new")
                    /\ ~ \E c \in DOMAIN R(1).pages : R(1).pages[c].parent = w

C9_Witness ==
    /\ C9_Case
    /\ feed[1] = AddWidgets
    /\ hist.runs # <<>> /\ R(1).st = "ok"
    /\ T("Widgets") \in Titles(R(1).pages)

\* C10: a MovePage executed when no page has its title and no page has its
\* new title raises the unreconcilable-state error and issues no create,
\* update or delete call.
C10_UnreconcilableDetection ==
    ( /\ last.st # "none"
      /\ last.action.kind = "MovePage"
      /\ last.action.title \notin Titles(last.before)
      /\ last.action.new_title \notin Titles(last.before) ) =>
        /\ last.st = "unreconcilable"
        /\ status = "unreconcilable"
        /\ Mutations(last.calls) = <<>>
        /\ pages = last.before

C10_Witness ==
    /\ last.action = MovePage(T("Ghost"), T("GhostNew"), <<>>)
    /\ last.st = "unreconcilable"
    /\ Titles(last.before) \cap {T("Ghost"), T("GhostNew")} = {}

UniqueTitles(pg) == \A i, j \in DOMAIN pg : pg[i].title = pg[j].title => i = j

\* The history unit executing is the first one and nothing has failed.
FirstUnit == driver.unit = 1 /\ run = 1 /\ status = "ok"

\* C11: starting from a tree whose titles are distinct, no state reached
\* during or after the execution of a built Delta has two pages with the
\* same title.
C11_TitleUniqueness ==
    (FirstUnit /\ UniqueTitles(hist.tree0)) => UniqueTitles(pages)

\* The batch of the first history unit.
Batch1 == driver.units[1]
RenamesOf(b) ==
    {i \in DOMAIN b : b[i].change_type = "RENAME" /\ b[i].old_path # NoPath}
\* The titles a batch deletes or renames away, modification i left out.
FreedBy(b, i) ==
    {TitleOfPath(b[j].old_path) :
        j \in {k \in DOMAIN b \ {i} : b[k].change_type \in {"RENAME", "DELETE"}
                                       /\ b[k].old_path # NoPath}}

\* A batch of Renames and Deletes of existing pages, one Rename of which
\* takes over the title of a page that the batch deletes or renames away;
\* no destination title is held by a page that stays.
C12_Case ==
    /\ UniqueTitles(hist.tree0)
    /\ \A i \in DOMAIN Batch1 :
          /\ Batch1[i].change_type \in {"RENAME", "DELETE"}
          /\ Batch1[i].old_path # NoPath
          /\ TitleOfPath(Batch1[i].old_path) \in Titles(hist.tree0)
          /\ AncestorsOfPath(Batch1[i].old_path) =
                ChainH(hist.tree0,
                       TheOne(get_page_results(hist.tree0,
                                               TitleOfPath(Batch1[i].old_path))))
    /\ \A i \in RenamesOf(Batch1) :
          /\ TitleOfPath(Batch1[i].new_path) \in Titles(hist.tree0)
                => TitleOfPath(Batch1[i].new_path) \in FreedBy(Batch1, i)
          /\ \A j \in RenamesOf(Batch1) :
                TitleOfPath(Batch1[i].new_path) = TitleOfPath(Batch1[j].new_path)
                    => i = j
    /\ \E i \in RenamesOf(Batch1) :
          TitleOfPath(Batch1[i].new_path) \in FreedBy(Batch1, i)

\* C12: a batch in which a Rename's destination title is the title of
\* another page that the batch deletes or renames away (two Renames that
\* swap titles included) raises no error of its own, never has two pages
\* with one title while it executes, and ends with every destination title
\* held by exactly the page that was renamed.
C12_RenameOntoFreedTitle ==
    (C12_Case /\ driver.unit >= 1) =>
        /\ (driver.unit = 1 /\ run = 1) =>
              /\ status \in {"ok", "accessor"}
              /\ UniqueTitles(pages)
        /\ (hist.runs # <<>> /\ R(1).st = "ok") =>
              \A i \in RenamesOf(Batch1) :
                 get_page_results(R(1).pages, TitleOfPath(Batch1[i].new_path))
                    = get_page_results(hist.tree0, TitleOfPath(Batch1[i].old_path))

C12_Witness ==
    /\ C12_Case
    /\ Cardinality(RenamesOf(Batch1)) = 2
    /\ hist.runs # <<>> /\ R(1).st = "ok"
    /\ \A i \in RenamesOf(Batch1) :
          get_page_results(R(1).pages, TitleOfPath(Batch1[i].new_path)) # {}

\* The start_renames pass of the current run has just completed: its last
\* action made the last remote call and no later action has started.
AfterStartRenames ==
    /\ status = "ok"
    /\ pc \notin {"start_renames", "failed"}
    /\ log # <<>>
    /\ log[Len(log)].run = run
    /\ log[Len(log)].bucket = "start_renames"

\* The former ancestors of the page titled t in tree pg, the homepage left
\* out.
FormerAncestors(pg, t) ==
    UNION {{x \in DOMAIN pg : \E k \in DOMAIN Ancestors(pg, n) :
                                  Ancestors(pg, n)[k] = x} \ {HomeId} :
           n \in get_page_results(pg, t)}

\* The tree the current run started from.
StartTree == IF run = 1 THEN hist.tree0 ELSE R(run - 1).pages

\* Action i of the start_renames pass of the current run moved its page.
Evacuated(i) ==
    \E k \in DOMAIN log :
        /\ log[k].run = run /\ log[k].bucket = "start_renames" /\ log[k].idx = i
        /\ log[k].call.op = "update"

\* C13 as stated: after the start_renames pass every page being renamed
\* carries its temporary title at the root, its old title is free, and every
\* ancestor it had before the first run that is left without child pages is
\* deleted, in every run.
C13_Original ==
    AfterStartRenames =>
        \A i \in DOMAIN delta.start_renames :
            /\ Cardinality(get_page_results(pages, delta.start_renames[i].new_title)) = 1
            /\ delta.start_renames[i].title \notin Titles(pages)
            /\ \A x \in FormerAncestors(hist.tree0, delta.start_renames[i].title) :
                  x \in DOMAIN pages => childTypes_page(pages, x)

\* C13: after the start_renames pass every page being renamed carries its
\* temporary title and is a child of the homepage (empty ancestor-title
\* chain) and its old title is free; when the pass has moved the page
\* itself, no former ancestor of the page is left without child pages.
C13_Evacuation ==
    AfterStartRenames =>
        \A i \in DOMAIN delta.start_renames :
            /\ Cardinality(get_page_results(pages, delta.start_renames[i].new_title)) = 1
            /\ \A n \in get_page_results(pages, delta.start_renames[i].new_title) :
                  /\ pages[n].parent = HomeId
                  /\ ChainH(pages, n) = <<>>
                  /\ run = 1 => {n} = get_page_results(hist.tree0,
                                                       delta.start_renames[i].title)
            /\ delta.start_renames[i].title \notin Titles(pages)
            /\ Evacuated(i) =>
                  \A x \in FormerAncestors(StartTree, delta.start_renames[i].title) :
                      x \in DOMAIN pages => childTypes_page(pages, x)

C13_Witness ==
    /\ AfterStartRenames
    /\ run = 1
    /\ \A i \in DOMAIN delta.start_renames : Evacuated(i)
    /\ \E i \in DOMAIN delta.start_renames :
          /\ delta.start_renames[i].title = T("X")
          /\ Cardinality(FormerAncestors(hist.tree0, T("X")) \ DOMAIN pages) = 2

\* The last action executed belongs to the finish_renames pass and has
\* made a remote call.
LastInFinishRenames ==
    /\ last.st # "none"
    /\ last.calls # <<>>
    /\ log # <<>>
    /\ log[Len(log)].bucket = "finish_renames"

\* The pages the last action addressed by its title.
Addressed == get_page_results(last.before, last.action.title)

\* The last action was an UpdatePage that found its page, passed the
\* ancestor check and applied its body to page n with one update call.
UpdateApplied_To(n) ==
    /\ last.st = "ok"
    /\ Len(Mutations(last.calls)) = 1
    /\ Mutations(last.calls)[1].op = "update"
    /\ Mutations(last.calls)[1].id = n
    /\ pages[n].title = last.action.title
    /\ pages[n].body = last.action.new_body
    /\ current_ancestors(pages, n) = last.action.ancestor_titles

\* C14 as stated: after a successful MovePage of finish_renames the page
\* has the new title and exactly the action's ancestor chain, and the
\* UpdatePage queued after it finds the page, passes its ancestor check and
\* applies the new body.
C14_Original ==
    LastInFinishRenames =>
        /\ (last.action.kind = "MovePage" /\ last.st = "ok") =>
              \A n \in Addressed :
                  /\ pages[n].title = last.action.new_title
                  /\ current_ancestors(pages, n) = last.action.ancestor_titles
        /\ (last.action.kind = "UpdatePage" /\ last.st # "accessor") =>
              /\ Cardinality(Addressed) = 1
              /\ \A n \in Addressed : UpdateApplied_To(n)

\* C14: after a successful MovePage of finish_renames the page has the new
\* title and is a child of the page titled as the last ancestor (for the
\* empty chain: of the homepage, or of no page once the homepage has been
\* deleted).  The UpdatePage queued after it applies
\* the new body when the page is the only one with the new title and its
\* ancestor chain is the action's; it raises and changes nothing when
\* another page has the title too or when the chain differs.
C14_FinishRename ==
    LastInFinishRenames =>
        /\ (last.action.kind = "MovePage" /\ last.st = "ok") =>
              \A n \in Addressed :
                  /\ pages[n].title = last.action.new_title
                  /\ IF last.action.ancestor_titles = <<>>
                     THEN pages[n].parent
                              = (IF HomeId \in DOMAIN pages THEN HomeId ELSE NoParent)
                     ELSE pages[pages[n].parent].title
                              = SeqLast(last.action.ancestor_titles)
        /\ (last.action.kind = "UpdatePage" /\ last.st # "accessor") =>
              /\ Addressed # {}
              /\ Cardinality(Addressed) > 1 =>
                    last.st = "ambiguous" /\ pages = last.before
              /\ Cardinality(Addressed) = 1 =>
                    \A n \in Addressed :
                        IF current_ancestors(last.before, n) = last.action.ancestor_titles
                        THEN UpdateApplied_To(n)
                        ELSE last.st = "assertion" /\ pages = last.before

C14_Witness ==
    /\ LastInFinishRenames
    /\ last.action.kind = "UpdatePage"
    /\ last.action.ancestor_titles # <<>>
    /\ \E n \in Addressed : UpdateApplied_To(n)

\* The batch with the single Modification RENAME A.md -> A/Foobar.md.
RenameIntoOwnFolder ==
    << Modification(P(<<>>, "A"), P(<<"A">>, "Foobar"), "RENAME", "new") >>

\* The first history unit is that batch and a page titled A exists.
C15_Case ==
    /\ driver.unit >= 1
    /\ Batch1 = RenameIntoOwnFolder
    /\ Cardinality(get_page_results(hist.tree0, T("A"))) = 1

\* C15: for the batch RENAME A.md -> A/Foobar.md against a tree where page
\* A exists, Delta.execute raises no error of its own and ends with an index
\* page titled A whose child is Foobar, Foobar being the page (same id)
\* that was titled A before the run.
C15_RenameIntoOwnFolder ==
    C15_Case =>
        /\ (driver.unit = 1 /\ run = 1) => status \in {"ok", "accessor"}
        /\ (hist.runs # <<>> /\ R(1).st = "ok") =>
              /\ get_page_results(R(1).pages, T("Foobar"))
                    = get_page_results(hist.tree0, T("A"))
              /\ Cardinality(get_page_results(R(1).pages, T("A"))) = 1
              /\ \A a \in get_page_results(R(1).pages, T("A")) :
                    /\ a \notin DOMAIN hist.tree0
                    /\ R(1).pages[a].body = PAGE_BODY_LIST_CHILDREN
                    /\ R(1).pages[a].parent = HomeId
                    /\ \A f \in get_page_results(R(1).pages, T("Foobar")) :
                          /\ R(1).pages[f].parent = a
                          /\ R(1).pages[f].body = markdown_to_storage("new")

C15_Witness ==
    /\ C15_Case
    /\ hist.runs # <<>> /\ R(1).st = "ok"
    /\ get_page_results(R(1).pages, T("Foobar")) # {}

\* A Modification from_modifications has no branch for: a type other than
\* ADD, MODIFY, DELETE, RENAME, or a RENAME without a previous path.
Unsupported(mod) ==
    /\ path(mod) # NoPath
    /\ \/ mod.change_type \notin {"ADD", "MODIFY", "DELETE", "RENAME"}
       \/ mod.change_type = "RENAME" /\ previous_path(mod) = NoPath
UnsupportedUnits ==
    {k \in DOMAIN driver.units :
        \E i \in DOMAIN driver.units[k] : Unsupported(driver.units[k][i])}

\* C16: from_modifications raises for a Modification of an unsupported type
\* (or a RENAME without a previous path); when a history unit of the run
\* contains one, the build stops at that unit and the run makes no remote
\* call at all.
C16_UnsupportedAtBuild ==
    /\ \A k \in UnsupportedUnits :
          /\ from_modifications(driver.units[k], 1).error = "unsupported"
          /\ Len(driver.deltas) < k
          /\ driver.unit = 0 /\ run = 0
          /\ log = <<>> /\ pages = hist.tree0
          /\ pc \in {"read", "failed"}
          /\ pc = "failed" => status = "unsupported"
    /\ status = "unsupported" =>
          /\ pc = "failed"
          /\ Len(driver.deltas) + 1 \in UnsupportedUnits

C16_Witness ==
    /\ pc = "failed"
    /\ status = "unsupported"
    /\ Len(driver.deltas) = 1
    /\ driver.deltas[1].adds # <<>>
    /\ log = <<>>

\* Unit k has been fully executed: the run of its Delta has completed.
UnitExecuted(k) == Len(hist.runs) >= k /\ R(k).st = "ok"

\* The uuid4() calls made while the Deltas before the k-th were built.
RECURSIVE UuidsBefore(_)
UuidsBefore(k) ==
    IF k <= 1 THEN 0 ELSE UuidsBefore(k - 1) + driver.deltas[k - 1].uuids

\* C17 as stated: the Delta of unit k+1 is built only after the Delta of
\* unit k has been fully executed.
C17_Original ==
    \A k \in 1 .. Len(driver.deltas) : k > 1 => UnitExecuted(k - 1)

\* C17: the Deltas of all history units are built first, oldest unit
\* first, and no remote call is made before the last one is built; they are
\* then executed one at a time in the same order: the Delta of unit k+1
\* starts only after the Delta of unit k has been fully executed.
C17_BuildAllThenExecute ==
    /\ Len(driver.deltas) <= Len(driver.units)
    /\ \A k \in DOMAIN driver.deltas :
          /\ driver.deltas[k].error = "none"
          /\ driver.deltas[k] = from_modifications(driver.units[k], 1 + UuidsBefore(k))
    /\ (log # <<>> \/ driver.unit > 0) =>
          /\ pc # "read"
          /\ Len(driver.deltas) = Len(driver.units)
    /\ pc = "read" => run = 0
    /\ driver.unit = run
    /\ driver.unit > 0 => delta = [driver.deltas[driver.unit] EXCEPT !.uuids = 0]
    /\ \A k \in 1 .. driver.unit - 1 : UnitExecuted(k)
    /\ \A i \in DOMAIN log : log[i].run <= driver.unit
    /\ \A i, j \in DOMAIN log : i < j => log[i].run <= log[j].run

C17_Witness ==
    /\ driver.unit = 2
    /\ pc = "done"
    /\ \E i \in DOMAIN log : log[i].run = 1
    /\ \E i \in DOMAIN log : log[i].run = 2

\* The tree after a remote call that went through: a call the server
\* refused, and a lookup, leave the tree as it is.
AfterCall(pg, c) ==
    IF c.op = "create" /\ c.parentLive
    THEN Put(pg, c.id, [title |-> c.title, parent |-> c.parent,
                        body |-> c.body, ver |-> c.ver])
    ELSE IF c.op = "update" /\ c.parentLive /\ c.ver = pg[c.id].ver + 1
    THEN [pg EXCEPT ![c.id] = [title |-> c.title, parent |-> c.parent,
                               body |-> c.body, ver |-> c.ver]]
    ELSE IF c.op = "delete" THEN WithoutPage(pg, c.id)
    ELSE pg

\* The tree after the first n calls of the log, from the starting tree.
RECURSIVE AppliedUpTo(_)
AppliedUpTo(n) ==
    IF n = 0 THEN hist.tree0 ELSE AfterCall(AppliedUpTo(n - 1), log[n].call)

\* C18: once an action has raised, the run is over: the calls of the
\* failing action are the last ones of the log, no later action of the
\* pass, no later pass and no later Delta has started, and the tree is the
\* starting tree with every mutation issued before the failure applied
\* (nothing is rolled back).
C18_StopOnFirstFailure ==
    /\ pages = AppliedUpTo(Len(log))
    /\ (status # "ok" /\ driver.units # <<>>) =>
          /\ pc = "failed"
          /\ (log # <<>> \/ driver.unit > 0) =>
                /\ driver.unit = run
                /\ Len(hist.runs) = run
                /\ R(run).st = status
                /\ R(run).logLen = Len(log)
                /\ R(run).pages = pages
                /\ last.st = status
                /\ Len(last.calls) <= Len(log)
                /\ SubSeq(log, Len(log) - Len(last.calls) + 1, Len(log))
                      = [k \in DOMAIN last.calls |->
                            [run |-> run, bucket |-> log[Len(log)].bucket,
                             idx |-> log[Len(log)].idx, call |-> last.calls[k]]]
                /\ \A i \in DOMAIN log : log[i].run <= run

C18_Witness ==
    /\ status = "accessor"
    /\ pc = "failed"
    /\ driver.unit = 1
    /\ Len(driver.units) = 2
    /\ driver.deltas[2].adds # <<>>
    /\ Mutations(last.calls) # <<>>
    /\ pages # hist.tree0

\* The last action was a CreatePage executed while exactly one page had its
\* title, and the accessor did not fail.
C19_Case ==
    /\ last.st \notin {"none", "accessor"}
    /\ last.action.kind = "CreatePage"
    /\ Cardinality(Addressed) = 1

\* C19 as stated: a CreatePage executed when exactly one page has its title
\* issues no create call, and afterwards exactly one page has the title and
\* carries the new body.
C19_Original ==
    C19_Case =>
        /\ Creates(last.calls) = <<>>
        /\ Cardinality(get_page_results(pages, last.action.title)) = 1
        /\ \A n \in get_page_results(pages, last.action.title) :
              pages[n].body = last.action.new_body

\* C19: a CreatePage executed when exactly one page has its title issues
\* no create call and does what UpdatePage does with the same arguments:
\* when the page's ancestor chain is the action's, one update call gives
\* the page the new body; otherwise the ancestor check fails and nothing
\* changes.  Either way exactly one page has the title afterwards.
C19_CreateDelegatesToUpdate ==
    C19_Case =>
        /\ Creates(last.calls) = <<>>
        /\ get_page_results(pages, last.action.title) = Addressed
        /\ \A n \in Addressed :
              IF current_ancestors(last.before, n) = last.action.ancestor_titles
              THEN UpdateApplied_To(n)
              ELSE /\ last.st = "assertion"
                   /\ Mutations(last.calls) = <<>>
                   /\ pages = last.before

C19_Witness ==
    /\ C19_Case
    /\ last.action.ancestor_titles # <<>>
    /\ \E n \in Addressed : UpdateApplied_To(n) /\ last.before[n].body # pages[n].body

\* The last action was an UpdatePage executed while no page had its title,
\* and the accessor did not fail.
C20_Case ==
    /\ last.st \notin {"none", "accessor"}
    /\ last.action.kind = "UpdatePage"
    /\ Addressed = {}

\* The page created by the last create call of the last action.
Created ==
    {Creates(last.calls)[k].id : k \in {Len(Creates(last.calls))} \ {0}} \cap DOMAIN pages

\* The titles of the last action's chain that no page has, the deepest
\* run of them; the pages holding the title just above that run.
Missing == MissingSuffix(last.before, last.action.ancestor_titles)
Anchors ==
    IF Len(Missing) = Len(last.action.ancestor_titles) THEN {}
    ELSE get_page_results(last.before,
            last.action.ancestor_titles[Len(last.action.ancestor_titles) - Len(Missing)])

\* The last action created its page, after the missing ancestors of its
\* chain, with its body, below the last title of the chain.
CreatedBelowChain ==
    /\ last.st = "ok"
    /\ OpsOf(Mutations(last.calls)) = {"create"}
    /\ [k \in DOMAIN Creates(last.calls) |-> Creates(last.calls)[k].title]
          = Missing \o <<last.action.title>>
    /\ Cardinality(Created) = 1
    /\ \A n \in Created :
          /\ pages[n].title = last.action.title
          /\ pages[n].body = last.action.new_body
          /\ IF last.action.ancestor_titles = <<>>
             THEN pages[n].parent = (IF HomeId \in DOMAIN pages THEN HomeId ELSE NoParent)
             ELSE pages[pages[n].parent].title = SeqLast(last.action.ancestor_titles)
          /\ \A i \in DOMAIN pages \ {n} :
                i \notin DOMAIN last.before => pages[i].body = PAGE_BODY_LIST_CHILDREN

\* C20 as stated: an UpdatePage executed when no page has its title raises
\* no error, issues no update call, and creates the page (and any missing
\* ancestors) with the given body under the given ancestor chain.
C20_Original ==
    C20_Case =>
        /\ CreatedBelowChain
        /\ \A n \in Created : ChainH(pages, n) = last.action.ancestor_titles

\* C20: an UpdatePage executed when no page has its title issues no update
\* call and does what CreatePage does: it creates the missing ancestors of
\* its chain and then the page, with the given body, as a child of the page
\* titled as the last ancestor.  The page's chain is the given chain when
\* the deepest ancestor that exists sits under the titles before it.  The
\* action raises only when that deepest existing title is held by several
\* pages, and then changes nothing.
C20_UpdateDelegatesToCreate ==
    C20_Case =>
        /\ "update" \notin OpsOf(last.calls)
        /\ IF Cardinality(Anchors) > 1
           THEN last.st = "ambiguous" /\ pages = last.before
           ELSE /\ CreatedBelowChain
                /\ \A n \in Created :
                      ChainH(pages, n) = last.action.ancestor_titles
                        <=> \A a \in Anchors :
                               Append(ChainH(last.before, a), last.before[a].title)
                                 = SubSeq(last.action.ancestor_titles, 1,
                                          Len(last.action.ancestor_titles) - Len(Missing))

C20_Witness ==
    /\ C20_Case
    /\ last.st = "ok"
    /\ Len(Creates(last.calls)) >= 3
    /\ \E n \in Created : ChainH(pages, n) = last.action.ancestor_titles

\* The last action was a MovePage executed while no page had its title and
\* exactly one page had its new title, and the accessor did not fail.
C21_Case ==
    /\ last.st \notin {"none", "accessor"}
    /\ last.action.kind = "MovePage"
    /\ Addressed = {}
    /\ Cardinality(get_page_results(last.before, last.action.new_title)) = 1

\* C21: a MovePage executed when no page has its title and exactly one page
\* has its new title returns without error and without any create, update
\* or delete call: it makes the two lookups only (no ancestor is looked up
\* or created, no cleanup runs) and the tree is unchanged.
C21_AlreadyMovedNoOp ==
    C21_Case =>
        /\ last.st = "ok"
        /\ status = "ok"
        /\ Mutations(last.calls) = <<>>
        /\ [k \in DOMAIN last.calls |-> last.calls[k].title]
              = <<last.action.title, last.action.new_title>>
        /\ pages = last.before

C21_Witness ==
    /\ C21_Case
    /\ last.action.ancestor_titles # <<>>
    /\ \E t \in {last.action.ancestor_titles[k] : k \in DOMAIN last.action.ancestor_titles} :
          t \notin Titles(pages)
    /\ last.st = "ok"

\* The last action was a DeletePage or a CleanupEmptyAncestors executed
\* while no page had its title, and the accessor did not fail.
C22_Case ==
    /\ last.st \notin {"none", "accessor"}
    /\ last.action.kind \in {"DeletePage", "CleanupEmptyAncestors"}
    /\ Addressed = {}

\* C22: a DeletePage or a CleanupEmptyAncestors executed when no page has
\* its title returns without error after its one lookup: no delete call,
\* no cascade, and the tree is unchanged.
C22_AlreadyGoneNoOp ==
    C22_Case =>
        /\ last.st = "ok"
        /\ status = "ok"
        /\ [k \in DOMAIN last.calls |-> last.calls[k].op] = <<"get">>
        /\ last.calls[1].title = last.action.title
        /\ pages = last.before

C22_Witness ==
    /\ C22_Case
    /\ last.action.kind = "CleanupEmptyAncestors"
    /\ last.st = "ok"
    /\ Cardinality(DOMAIN pages) > 2

\* The last action was an UpdatePage that found exactly one page with its
\* title, under an ancestor chain other than the action's.
C23_Case ==
    /\ last.st \notin {"none", "accessor"}
    /\ last.action.kind = "UpdatePage"
    /\ Cardinality(Addressed) = 1
    /\ \A n \in Addressed :
          current_ancestors(last.before, n) # last.action.ancestor_titles

\* C23: an UpdatePage executed on an existing page whose current
\* ancestor-title chain (the homepage left out) differs from the action's
\* chain raises the ancestor-check error after its lookup and issues no
\* create, update or delete call: body, title, parent and version of the
\* page, and the rest of the tree, are unchanged.
C23_AncestorMismatchFatal ==
    C23_Case =>
        /\ last.st = "assertion"
        /\ [k \in DOMAIN last.calls |-> last.calls[k].op] = <<"get">>
        /\ pages = last.before

\* The chain differs in length only (a prefix), and in one position only.
C23_Witness ==
    /\ C23_Case
    /\ last.st = "assertion"
    /\ \E n \in Addressed :
          /\ Len(current_ancestors(last.before, n)) = 2
          /\ Len(last.action.ancestor_titles) = 1
          /\ last.action.ancestor_titles[1] = current_ancestors(last.before, n)[1]

Updates(calls) == SelectSeq(calls, LAMBDA c : c.op = "update")

\* C24: a MovePage never changes content: it issues at most one update
\* call, for the page it moves, and every page that exists before and
\* after it has the body it had; in a Rename the finishing MovePage is
\* followed by the UpdatePage that carries the new body, so the body of a
\* renamed page changes only in that UpdatePage.
C24_MoveKeepsContent ==
    /\ (last.st # "none" /\ last.action.kind = "MovePage") =>
          /\ Len(Updates(last.calls)) <= 1
          /\ \A k \in DOMAIN Updates(last.calls) :
                /\ Updates(last.calls)[k].id \in Addressed
                /\ Updates(last.calls)[k].body
                      = last.before[Updates(last.calls)[k].id].body
          /\ \A n \in DOMAIN pages \cap DOMAIN last.before :
                pages[n].body = last.before[n].body
    /\ Len(delta.finish_renames) = 2 * Len(delta.start_renames)
    /\ \A i \in DOMAIN delta.start_renames :
          /\ delta.start_renames[i].kind = "MovePage"
          /\ delta.finish_renames[2 * i - 1].kind = "MovePage"
          /\ delta.finish_renames[2 * i].kind = "UpdatePage"
          /\ delta.finish_renames[2 * i].title = delta.finish_renames[2 * i - 1].new_title
          /\ delta.finish_renames[2 * i].new_body # NoBody

\* A finishing move has just succeeded: the page has its final title and
\* still its old body, and the UpdatePage with the new body is next.
C24_Witness ==
    /\ pc = "finish_renames"
    /\ last.st = "ok"
    /\ last.action.kind = "MovePage"
    /\ idx \in 2 .. Len(delta.finish_renames)
    /\ last.action = delta.finish_renames[idx - 1]
    /\ delta.finish_renames[idx].kind = "UpdatePage"
    /\ \E n \in Addressed :
          /\ pages[n].title = last.action.new_title
          /\ pages[n].parent # last.before[n].parent
          /\ pages[n].body = last.before[n].body
          /\ pages[n].body # delta.finish_renames[idx].new_body

\* C25: every update request of an UpdatePage or a MovePage carries the
\* version number the action's lookup read plus one (2 when the lookup
\* shows no version number); that version is still the page's version when
\* the request is submitted, so the server never refuses an update for its
\* version number and each update that goes through raises the page's
\* version by exactly one.
C25_VersionPlusOne ==
    /\ VersionNumber(0) = 2
    /\ \A v \in 1 .. 4 : VersionNumber(v) = v + 1
    /\ last.st # "none" =>
          /\ Len(Updates(last.calls)) <= 1
          /\ \A k \in DOMAIN Updates(last.calls) :
                /\ Updates(last.calls)[k].id \in DOMAIN last.before
                /\ Updates(last.calls)[k].ver
                      = VersionNumber(last.before[Updates(last.calls)[k].id].ver)
                /\ Updates(last.calls)[k].ver
                      = last.before[Updates(last.calls)[k].id].ver + 1
                /\ Updates(last.calls)[k].id \in DOMAIN pages
                /\ pages[Updates(last.calls)[k].id].ver
                      = IF Updates(last.calls)[k].parentLive
                        THEN last.before[Updates(last.calls)[k].id].ver + 1
                        ELSE last.before[Updates(last.calls)[k].id].ver
          /\ \A n \in DOMAIN pages \cap DOMAIN last.before :
                pages[n].ver # last.before[n].ver
                    => \E k \in DOMAIN Updates(last.calls) : Updates(last.calls)[k].id = n

\* A MovePage that created an ancestor between its lookup and its update,
\* on a page that had been updated before.
C25_Witness ==
    /\ last.st = "ok"
    /\ last.action.kind = "MovePage"
    /\ Creates(last.calls) # <<>>
    /\ \E k \in DOMAIN Updates(last.calls) :
          /\ last.before[Updates(last.calls)[k].id].ver >= 2
          /\ pages[Updates(last.calls)[k].id].ver
                = last.before[Updates(last.calls)[k].id].ver + 1

\* The last action was an UpdatePage that found its page and updated it.
C26_Case ==
    /\ last.st = "ok"
    /\ last.action.kind = "UpdatePage"
    /\ Cardinality(Addressed) = 1

\* C26: an UpdatePage on an existing page changes only body and version of
\* that page: its id, title, parent and ancestor chain are what they were,
\* for a child of the homepage as for a nested page, and no other page is
\* created, changed or deleted.
C26_UpdateFrame ==
    C26_Case =>
        /\ DOMAIN pages = DOMAIN last.before
        /\ \A n \in DOMAIN pages :
              /\ pages[n].title = last.before[n].title
              /\ pages[n].parent = last.before[n].parent
              /\ Ancestors(pages, n) = Ancestors(last.before, n)
              /\ n \notin Addressed => pages[n] = last.before[n]
              /\ n \in Addressed =>
                    /\ pages[n].body = last.action.new_body
                    /\ pages[n].ver = last.before[n].ver + 1
        /\ OpsOf(Mutations(last.calls)) = {"update"}

C26_Witness ==
    /\ C26_Case
    /\ \E n \in Addressed :
          /\ Len(Ancestors(pages, n)) = 1
          /\ pages[n].body # last.before[n].body

\* The Modifications of batch b that have a path and the type ty, in feed
\* order.
OfType(b, ty) ==
    SelectSeq(b, LAMBDA mod : path(mod) # NoPath /\ mod.change_type = ty)

\* Delta d is the classification of batch b.
Classified(d, b) ==
    /\ d.adds = [i \in DOMAIN OfType(b, "ADD") |->
                    CreatePage(TitleOfPath(path(OfType(b, "ADD")[i])),
                               markdown_to_storage(OfType(b, "ADD")[i].source_code),
                               AncestorsOfPath(path(OfType(b, "ADD")[i])))]
    /\ d.updates = [i \in DOMAIN OfType(b, "MODIFY") |->
                    UpdatePage(TitleOfPath(path(OfType(b, "MODIFY")[i])),
                               markdown_to_storage(OfType(b, "MODIFY")[i].source_code),
                               AncestorsOfPath(path(OfType(b, "MODIFY")[i])))]
    /\ d.deletes = [i \in DOMAIN OfType(b, "DELETE") |->
                    DeletePage(TitleOfPath(path(OfType(b, "DELETE")[i])))]
    /\ Len(d.start_renames) = Len(OfType(b, "RENAME"))
    /\ Len(d.finish_renames) = 2 * Len(OfType(b, "RENAME"))
    /\ \A i \in DOMAIN OfType(b, "RENAME") :
          /\ d.start_renames[i] =
                MovePage(TitleOfPath(OfType(b, "RENAME")[i].old_path),
                         d.start_renames[i].new_title, <<>>)
          /\ d.finish_renames[2 * i - 1] =
                MovePage(d.start_renames[i].new_title,
                         TitleOfPath(path(OfType(b, "RENAME")[i])),
                         AncestorsOfPath(path(OfType(b, "RENAME")[i])))
          /\ d.finish_renames[2 * i] =
                UpdatePage(TitleOfPath(path(OfType(b, "RENAME")[i])),
                           markdown_to_storage(OfType(b, "RENAME")[i].source_code),
                           AncestorsOfPath(path(OfType(b, "RENAME")[i])))
          \* the temporary title: a token and the old title
          /\ d.start_renames[i].new_title[2] = d.start_renames[i].title[2]
          /\ d.start_renames[i].new_title[1] # 0
          /\ \A j \in DOMAIN OfType(b, "RENAME") :
                d.start_renames[i].new_title = d.start_renames[j].new_title => i = j
          /\ \A k \in DOMAIN b :
                /\ b[k].old_path # NoPath =>
                      d.start_renames[i].new_title # TitleOfPath(b[k].old_path)
                /\ b[k].new_path # NoPath =>
                      d.start_renames[i].new_title # TitleOfPath(b[k].new_path)

\* C27: from_modifications turns each Modification that has a path into:
\* ADD, one CreatePage in adds; MODIFY, one UpdatePage in updates; DELETE,
\* one DeletePage in deletes; RENAME, one MovePage(old title, temp) in
\* start_renames and MovePage(temp, title, ancestors) followed by
\* UpdatePage(title, body, ancestors) in finish_renames, temp being the
\* same in both moves and no other title of the batch; every bucket is in
\* feed order and a Modification without a path contributes nothing.
C27_Classification ==
    \A k \in DOMAIN driver.deltas : Classified(driver.deltas[k], driver.units[k])

C27_Witness ==
    /\ Len(driver.deltas) = 2
    /\ Len(driver.deltas[1].start_renames) = 2
    /\ Len(driver.units[2]) = 2
    /\ path(driver.units[2][1]) = NoPath
    /\ Len(driver.deltas[2].updates) = 1

\* The tree after the first k calls of the last action.
RECURSIVE TreeAtCall(_)
TreeAtCall(k) ==
    IF k = 0 THEN last.before ELSE AfterCall(TreeAtCall(k - 1), last.calls[k])

\* The last action's lookup of its own title went through and returned
\* more than one page.
C28_Case ==
    /\ last.calls # <<>>
    /\ Cardinality(Addressed) > 1

\* C28: when the lookup of an action's own title returns more than one
\* page, the action (CreatePage, UpdatePage, DeletePage, MovePage,
\* EnsureAncestors, CleanupEmptyAncestors) raises with that lookup as its
\* only remote call: no create, update or delete is issued, the tree is
\* left as it was, and a run the action belongs to has stopped.  The same
\* goes for the lookup a nested EnsureAncestors or CleanupEmptyAncestors
\* makes of its own title: it is the last call of the action.
C28_AmbiguousFatal ==
    /\ C28_Case =>
          /\ last.st = "ambiguous"
          /\ last.calls = <<Entry("get", 0, last.action.title, 0, NoBody, 0, TRUE)>>
          /\ status = "ambiguous" => (pages = last.before /\ pc \in {"unit", "failed"})
    /\ \A k \in DOMAIN last.calls :
          (/\ last.calls[k].op = "get"
           /\ Cardinality(get_page_results(TreeAtCall(k), last.calls[k].title)) > 1)
             => (k = Len(last.calls) /\ last.st # "ok")

C28_Witness ==
    /\ C28_Case
    /\ last.action.kind = "CleanupEmptyAncestors"
    /\ status = "ambiguous"

C28_WitnessEnsure == C28_Case /\ last.action.kind = "EnsureAncestors"
C28_WitnessCreate == C28_Case /\ last.action.kind = "CreatePage"
C28_WitnessUpdate == C28_Case /\ last.action.kind = "UpdatePage"
C28_WitnessDelete == C28_Case /\ last.action.kind = "DeletePage"
C28_WitnessMove == C28_Case /\ last.action.kind = "MovePage"
C28_WitnessNested ==
    /\ last.st = "ambiguous"
    /\ Len(last.calls) > 1
    /\ Mutations(last.calls) # <<>>

\* The last action was a CreatePage (or the EnsureAncestors built on it)
\* that found no page with its title and ended without an error.
C29_Case ==
    /\ last.st = "ok"
    /\ last.action.kind \in {"CreatePage", "EnsureAncestors"}
    /\ Addressed = {}

\* C29 as stated: on a tree with distinct titles, the page created by a
\* CreatePage that found no page with its title has exactly the given
\* ancestor titles as its chain, also when a title of the chain exists
\* under another parent than the chain says.
C29_Original ==
    (C29_Case /\ UniqueTitles(last.before)) =>
        \A n \in Created : ChainH(pages, n) = last.action.ancestor_titles

\* C29: a CreatePage that finds no page with its title and succeeds creates
\* the ancestors of its chain that come after the deepest existing one, in
\* chain order, and then the page, as a child of the page titled as the
\* last ancestor (of the homepage for an empty chain).  The deepest
\* existing ancestor is taken where it is: the created page's chain is the
\* given chain exactly when that ancestor sits under the titles before it.
C29_CreatedUnderResolvedParent ==
    C29_Case =>
        /\ CreatedBelowChain
        /\ Cardinality(Anchors) <= 1
        /\ \A n \in Created :
              ChainH(pages, n) = last.action.ancestor_titles
                <=> \A a \in Anchors :
                       Append(ChainH(last.before, a), last.before[a].title)
                         = SubSeq(last.action.ancestor_titles, 1,
                                  Len(last.action.ancestor_titles) - Len(Missing))

C29_Witness ==
    /\ C29_Case
    /\ last.action.kind = "CreatePage"
    /\ UniqueTitles(last.before)
    /\ Anchors # {}
    /\ Missing # <<>>
    /\ \E n \in Created : ChainH(pages, n) = last.action.ancestor_titles

\* The created page lies under an ancestor that is not where the chain
\* says.
C29_WitnessElsewhere ==
    /\ C29_Case
    /\ UniqueTitles(last.before)
    /\ \E n \in Created : ChainH(pages, n) # last.action.ancestor_titles

\* Some page of the tree has page i as its parent.
HasChildPage(pg, i) == \E c \in DOMAIN pg : pg[c].parent = i

\* The positions, among the calls of the last action, of the delete calls
\* issued by a cleanup: every delete but the one a DeletePage makes of its
\* own page.
CleanupDeletes ==
    {k \in DOMAIN last.calls :
        /\ last.calls[k].op = "delete"
        /\ (last.action.kind = "DeletePage"
              => \E j \in 1 .. k - 1 : last.calls[j].op = "delete")}

\* The last delete call before call k, 0 if there is none.
PreviousDelete(k) ==
    IF \E j \in 1 .. k - 1 : last.calls[j].op = "delete"
    THEN CHOOSE j \in 1 .. k - 1 :
            /\ last.calls[j].op = "delete"
            /\ \A i \in j + 1 .. k - 1 : last.calls[i].op # "delete"
    ELSE 0

\* C30: every page a cleanup deletes has no child page in the tree the
\* delete call is made on, and the cleanup climbs one parent at a time: a
\* page deleted by the cleanup after another delete of the same action is
\* the parent of the page deleted just before.  A page that has a child
\* page when the cleanup looks it up is therefore kept, and so is every
\* page above it.
C30_CleanupOnlyEmpty ==
    \A k \in CleanupDeletes :
        /\ last.calls[k].id \in DOMAIN TreeAtCall(k - 1)
        /\ ~HasChildPage(TreeAtCall(k - 1), last.calls[k].id)
        /\ PreviousDelete(k) # 0 =>
              last.calls[k].id
                = TreeAtCall(PreviousDelete(k) - 1)[last.calls[PreviousDelete(k)].id].parent

\* A cleanup deleted an empty page and stopped at its parent, which has a
\* child page and is still there.
C30_Witness ==
    /\ last.st = "ok"
    /\ last.action.kind = "CleanupEmptyAncestors"
    /\ CleanupDeletes # {}
    /\ \E k \in CleanupDeletes :
          /\ last.calls[k].parent \in DOMAIN pages
          /\ HasChildPage(pages, last.calls[k].parent)
          /\ last.calls[Len(last.calls)].op = "get"

\* A cleanup found its page with a child page and deleted nothing.
C30_WitnessStop ==
    /\ last.st = "ok"
    /\ last.action.kind = "CleanupEmptyAncestors"
    /\ \E n \in Addressed : HasChildPage(last.before, n)
    /\ pages = last.before

\* The files written by the Modifications of a batch, and the files it
\* removes, as paths.
Written(b) ==
    {path(b[i]) : i \in {j \in DOMAIN b : b[j].change_type \in {"ADD", "MODIFY", "RENAME"}
                                           /\ path(b[j]) # NoPath}}
Removed(b) ==
    {b[i].old_path : i \in {j \in DOMAIN b : b[j].change_type \in {"DELETE", "RENAME"}
                                              /\ b[j].old_path # NoPath}}

\* The files known to exist after the first k history units: those a unit
\* wrote and no later Modification removed.
RECURSIVE FilesAfter(_)
FilesAfter(k) ==
    IF k = 0 THEN {}
    ELSE (FilesAfter(k - 1) \ Removed(driver.units[k])) \cup Written(driver.units[k])

\* Call i of the log is a delete issued by a cleanup: a delete of a move,
\* or a delete that follows another delete of the same DeletePage.
CleanupDeleteInLog(i) ==
    /\ log[i].call.op = "delete"
    /\ \/ log[i].bucket # "deletes"
       \/ \E j \in 1 .. i - 1 :
             /\ log[j].run = log[i].run /\ log[j].bucket = log[i].bucket
             /\ log[j].idx = log[i].idx /\ log[j].call.op = "delete"

\* The page deleted by call i of the log was created or updated with a
\* file's content by an earlier CreatePage or UpdatePage of the passes.
WrittenBefore(i) ==
    \E j \in 1 .. i - 1 :
        /\ log[j].call.id = log[i].call.id
        /\ log[j].call.op \in {"create", "update"}
        /\ log[j].bucket \in {"adds", "updates", "finish_renames"}
        /\ log[j].call.body[1] = "storage"
        /\ log[j].call.title = log[i].call.title

\* C31: no cleanup deletes the page of a file that exists after the batch:
\* a page that a CreatePage or UpdatePage wrote for an Add, Modify or Rename
\* is never deleted by CleanupEmptyAncestors while its title is that of a
\* file that this or an earlier unit wrote and no later Modification
\* removed.
C31_CascadeOnlyIndex ==
    \A i \in DOMAIN log :
        (CleanupDeleteInLog(i) /\ WrittenBefore(i)) =>
            log[i].call.title \notin {TitleOfPath(f) : f \in FilesAfter(log[i].run)}

\* The page of a file an earlier unit wrote is gone, deleted by a cleanup,
\* when the run has completed without error.
C31_FileLost ==
    /\ pc = "done"
    /\ status = "ok"
    /\ driver.unit = 2
    /\ \E f \in FilesAfter(2) : TitleOfPath(f) \notin Titles(pages)
    /\ \E i \in DOMAIN log : CleanupDeleteInLog(i) /\ WrittenBefore(i)

\* The pages of the tree that an EnsureAncestors of this or an earlier run
\* created: the create calls of the log that carry the children-list body.
CreatedByEnsureAncestors ==
    {log[i].call.id : i \in {j \in DOMAIN log :
                                /\ log[j].call.op = "create"
                                /\ log[j].call.body = PAGE_BODY_LIST_CHILDREN}}
      \cap DOMAIN pages

\* Every index page of the tree has a child page.
IndexPagesInUse(pg) ==
    \A i \in DOMAIN pg : pg[i].body = PAGE_BODY_LIST_CHILDREN => HasChildPage(pg, i)

Depth(pg) ==
    CHOOSE d \in 1 .. Cardinality(DOMAIN pg) + 1 :
        /\ \A i \in DOMAIN pg : Len(Ancestors(pg, i)) + 1 <= d
        /\ \/ \E i \in DOMAIN pg : Len(Ancestors(pg, i)) + 1 = d
           \/ (DOMAIN pg = {} /\ d = 1)

\* The calls of the last action stay within what its ancestor chain and the
\* depth of the tree allow.
C33_Bounded ==
    /\ Len(Creates(last.calls)) <=
          (IF last.action.kind = "MovePage" THEN 0 ELSE 1)
            + Len(last.action.ancestor_titles)
    /\ last.action.kind \in {"DeletePage", "CleanupEmptyAncestors"}
          => Creates(last.calls) = <<>>
    /\ Len(Deletes(last.calls)) <= Depth(last.before)
    /\ last.action.kind \in {"CreatePage", "UpdatePage", "EnsureAncestors"}
          => Deletes(last.calls) = <<>>
    /\ Len(Updates(last.calls)) <= 1
    /\ ~({"create", "update"} \subseteq OpsOf(last.calls)
          /\ last.action.kind \in {"CreatePage", "UpdatePage", "EnsureAncestors"})
    /\ Len(last.calls) <= 3 * (Len(last.action.ancestor_titles) + 1)
                            + 3 * Depth(last.before)

C33_Running ==
    pc \in {"deletes", "start_renames", "adds", "finish_renames", "updates"}
C33_Ended == pc \in {"done", "failed"}

\* The actions of Delta d that are still to execute at position <<b, i>>.
RECURSIVE LenFrom(_, _)
LenFrom(d, k) ==
    IF k > Len(BucketOrder) THEN 0 ELSE Len(d[BucketOrder[k]]) + LenFrom(d, k + 1)
Remaining(d, b, i) == LenFrom(d, BucketNo(b)) - (i - 1)

\* Delta.execute is at an action of its Delta.
C33_AtAction == C33_Running => idx \in DOMAIN delta[pc]

\* A step of a running Delta.execute ends it or leaves fewer actions to
\* execute.
C33_Step ==
    C33_Running =>
        \/ C33_Ended'
        \/ /\ C33_Running'
           /\ delta' = delta
           /\ Remaining(delta, pc', idx') < Remaining(delta, pc, idx)

\* C33: every execute ends.  An action creates at most one page per title
\* of its ancestor chain and its own, deletes at most as many pages as the
\* tree is deep, issues at most one update, never both creates and updates
\* when it is a CreatePage or an UpdatePage (the delegation between the two
\* happens once), and makes a number of remote calls bounded by the length
\* of the chain and the depth of the tree.  A Delta.execute that has
\* started is always at an action of its Delta, and each of its steps ends
\* it (finished or raised) or leaves fewer actions to execute: it ends
\* after at most as many steps as the Delta has actions.
C33_Terminates == [](C33_Bounded /\ C33_AtAction) /\ [][C33_Step]_vars

\* A Delta has run to its end after an action that created a whole chain of
\* three ancestors and one whose cleanup went up to the top of the tree.
C33_Witness ==
    /\ pc = "done" /\ status = "ok"
    /\ \E i \in DOMAIN log :
          log[i].call.op = "create" /\ log[i].call.title = T("C")
    /\ \E i \in DOMAIN log : log[i].call.op = "delete" /\ log[i].call.title = T("A")

\* The orderings of a batch.
Orderings(b) == {[i \in DOMAIN b |-> b[f[i]]] : f \in Permutations(DOMAIN b)}

\* The batch executed from the starting tree with no failure.
ResultOf(b) ==
    Delta_execute(World(hist.tree0, Len(hist.tree0) + 1, -1), from_modifications(b, 1))

\* Every ordering of the feed completes without error, all with the same
\* tree, and a run of the feed that has completed has produced that tree.
OrderIndependent ==
    /\ pc = "build" =>
          \A b \in Orderings(feed) :
              /\ ResultOf(b).st = "ok"
              /\ ShapeH(ResultOf(b).pages) = ShapeH(ResultOf(feed).pages)
    /\ (pc = "done" /\ status = "ok") => ShapeH(pages) = ShapeH(ResultOf(feed).pages)
    /\ pc = "failed" => status = "accessor"

\* The titles of a batch of Adds with the chain each is placed under: the
\* file titles, and the folder titles of the chains.
PlacesOf(b) ==
    UNION { {<<TitleOfPath(path(b[i])), AncestorsOfPath(path(b[i]))>>}
              \cup {<<AncestorsOfPath(path(b[i]))[k],
                      SubSeq(AncestorsOfPath(path(b[i])), 1, k - 1)>> :
                        k \in DOMAIN AncestorsOfPath(path(b[i]))}
            : i \in DOMAIN b }
PlacesIn(pg) == {<<pg[i].title, ChainH(pg, i)>> : i \in DOMAIN pg \ {HomeId}}

\* Every title of the batch and of the tree has one place.
OnePlacePerTitle(b, pg) ==
    /\ UniqueTitles(pg)
    /\ \A p, q \in PlacesOf(b) \cup PlacesIn(pg) : p[1] = q[1] => p[2] = q[2]

\* No title of the batch is in the tree.
FreshTitles(b, pg) == {p[1] : p \in PlacesOf(b)} \cap Titles(pg) = {}

\* C34 as stated: for a batch of Adds with pairwise distinct titles (a title
\* may also be a folder of another Add), on a tree that has none of the
\* batch's titles, every ordering completes without error and all orderings
\* yield the same tree (titles, parents, bodies).
C34_Original == FreshTitles(feed, hist.tree0) => OrderIndependent

\* C34: for a batch of Adds with pairwise distinct titles in which every
\* title, as a file or as a folder, in the batch and in the starting tree,
\* has one place (the same ancestor chain wherever it occurs), every
\* ordering completes without error and all orderings yield the same tree
\* (titles, parents, bodies).
C34_AddsOrderIndependent == OnePlacePerTitle(feed, hist.tree0) => OrderIndependent

\* A completed batch of three Adds in which the title of one is a folder of
\* another, added after it.
C34_Witness ==
    /\ pc = "done" /\ status = "ok"
    /\ OnePlacePerTitle(feed, hist.tree0)
    /\ Len(feed) = 3
    /\ \E i, j \in DOMAIN feed :
          /\ i < j
          /\ TitleOfPath(path(feed[j])) \in
                {AncestorsOfPath(path(feed[i]))[k] : k \in DOMAIN AncestorsOfPath(path(feed[i]))}

\* The path of a file as its segments, the file name last; a file name as
\* its stem and its extension.
Segments(p) == p.dirs \o <<[stem |-> p.stem, suffix |-> p.suffix]>>

\* The Modifications of the units read so far, with the Delta built from
\* their unit.
BuiltMods ==
    UNION { {<<driver.units[k][i], driver.deltas[k]>> : i \in DOMAIN driver.units[k]} :
                k \in DOMAIN driver.deltas }

\* The actions of a Delta.
ActionsOf(d) ==
    UNION { {d[b][i] : i \in DOMAIN d[b]} : b \in Passes }

\* The title and the ancestor chain the segments of a path stand for.
TitleFor(p) == <<0, Segments(p)[Len(Segments(p))].stem>>
ChainFor(p) == [k \in 1 .. Len(Segments(p)) - 1 |-> <<0, Segments(p)[k]>>]

\* C35: the path of a Modification is its new path when it has one and its
\* old path otherwise; its previous path is its old path for a Rename and
\* absent for every other type; every action built for a Modification
\* carries as title the last segment of the path without its extension and
\* as ancestor chain the segments before it, in order, empty for a file at
\* the root; the start move of a Rename carries the title of the previous
\* path.
C35_TitleDerivation ==
    \A bm \in BuiltMods :
        /\ bm[1].new_path # NoPath => path(bm[1]) = bm[1].new_path
        /\ bm[1].new_path = NoPath => path(bm[1]) = bm[1].old_path
        /\ bm[1].change_type = "RENAME" => previous_path(bm[1]) = bm[1].old_path
        /\ bm[1].change_type # "RENAME" => previous_path(bm[1]) = NoPath
        /\ (bm[1].new_path # NoPath \/ bm[1].old_path # NoPath) =>
              /\ TitleOfPath(path(bm[1])) = TitleFor(path(bm[1]))
              /\ AncestorsOfPath(path(bm[1])) = ChainFor(path(bm[1]))
              /\ (path(bm[1]).dirs = <<>>) <=> (AncestorsOfPath(path(bm[1])) = <<>>)
        /\ bm[1].new_path # NoPath =>
              \E a \in ActionsOf(bm[2]) :
                  /\ a.kind # "MovePage" \/ a.title # a.new_title
                  /\ (IF a.kind = "MovePage" THEN a.new_title ELSE a.title)
                        = TitleFor(bm[1].new_path)
                  /\ a.kind # "DeletePage" => a.ancestor_titles = ChainFor(bm[1].new_path)
        /\ (bm[1].new_path = NoPath /\ bm[1].old_path # NoPath) =>
              \E a \in ActionsOf(bm[2]) :
                  /\ a.title = TitleFor(bm[1].old_path)
                  /\ a.kind # "DeletePage" => a.ancestor_titles = ChainFor(bm[1].old_path)
        /\ bm[1].change_type = "RENAME" =>
              \E a \in ActionsOf(bm[2]) :
                  /\ a.kind = "MovePage"
                  /\ a.title = TitleFor(bm[1].old_path)
                  /\ a.ancestor_titles = <<>>

\* Deltas are built for a Rename from the root into a folder and for a
\* Delete of a file two folders down that has an old path only.
C35_Witness ==
    /\ Len(driver.deltas) = 2
    /\ \E bm \in BuiltMods :
          /\ bm[1].change_type = "RENAME"
          /\ bm[1].old_path.dirs = <<>> /\ bm[1].new_path.dirs # <<>>
    /\ \E bm \in BuiltMods :
          /\ bm[1].change_type = "DELETE"
          /\ bm[1].new_path = NoPath /\ Len(bm[1].old_path.dirs) = 2


\* A path lies under a folder: the folder's segments lead the path's.
Under(folder, p) ==
    /\ p # NoPath
    /\ Len(p.dirs) >= Len(folder)
    /\ \A k \in DOMAIN folder : p.dirs[k] = folder[k]

\* A path without the leading segments of the folder.
Below(folder, p) ==
    [dirs |-> [k \in 1 .. Len(p.dirs) - Len(folder) |-> p.dirs[k + Len(folder)]],
     stem |-> p.stem, suffix |-> p.suffix]

\* The positions of the commit's Modifications that touch the folder, and
\* the n-th of them.
KeptPositions(b, folder) ==
    {i \in DOMAIN b : Under(folder, path(b[i])) \/ Under(folder, previous_path(b[i]))}
NthKept(b, folder, n) ==
    CHOOSE i \in KeptPositions(b, folder) :
        Cardinality({j \in KeptPositions(b, folder) : j < i}) = n - 1

\* What the folder sees of a Modification that touches it.
SeenAs(folder, mod, out) ==
    LET newIn == Under(folder, path(mod))
        oldIn == Under(folder, previous_path(mod))
    IN /\ out.source_code = mod.source_code
       /\ (mod.change_type = "RENAME" /\ previous_path(mod) # NoPath /\ newIn /\ ~oldIn) =>
             /\ out.change_type = "ADD"
             /\ path(out) = Below(folder, mod.new_path)
             /\ previous_path(out) = NoPath
       /\ (mod.change_type = "RENAME" /\ ~newIn /\ oldIn) =>
             /\ out.change_type = "DELETE"
             /\ path(out) = Below(folder, mod.old_path)
             /\ previous_path(out) = NoPath
       /\ (mod.change_type = "RENAME" /\ newIn /\ oldIn) =>
             /\ out.change_type = "RENAME"
             /\ path(out) = Below(folder, mod.new_path)
             /\ previous_path(out) = Below(folder, mod.old_path)
       /\ (mod.change_type # "RENAME" \/ previous_path(mod) = NoPath) =>
             /\ out.change_type = mod.change_type
             /\ path(out) = Below(folder, path(mod))
             /\ previous_path(out) = NoPath

\* C36: filter_modifications_to_folder yields one Modification for each
\* Modification of the commit whose path or previous path lies under the
\* folder, in the order of the commit, and nothing for the others; the
\* paths it yields are relative to the folder; a Rename from outside into
\* the folder is yielded as an Add of the new path, a Rename from inside to
\* outside as a Delete of the old path, a Rename inside the folder as a
\* Rename with both paths, and every other Modification with its own type.
C36_FilterToFolder ==
    pc # "filter" =>
        /\ Len(feed) = Cardinality(KeptPositions(driver.units[1], driver.folder))
        /\ \A n \in DOMAIN feed :
              SeenAs(driver.folder,
                     driver.units[1][NthKept(driver.units[1], driver.folder, n)],
                     feed[n])

\* A commit filtered to a folder below the root: a Rename that leaves the
\* folder is yielded as a Delete, then a Rename that enters it as an Add.
C36_Witness ==
    /\ pc # "filter"
    /\ driver.folder # <<>>
    /\ Len(driver.units[1]) = 2 /\ Len(feed) = 2
    /\ driver.units[1][1].change_type = "RENAME" /\ feed[1].change_type = "DELETE"
    /\ driver.units[1][2].change_type = "RENAME" /\ feed[2].change_type = "ADD"

\* A commit of which one Modification is dropped and a Rename inside the
\* folder is kept with both paths made relative.
C36_WitnessDropped ==
    /\ pc # "filter"
    /\ driver.folder # <<>>
    /\ Len(driver.units[1]) = 2 /\ Len(feed) = 1
    /\ feed[1].change_type = "RENAME"
    /\ feed[1].old_path.dirs # <<>> /\ feed[1].new_path.dirs = <<>>
    /\ feed[1].old_path # driver.units[1][2].old_path

====
